---- MODULE Spec2Model ----
(***************************************************************************)
(* WebChatAgents: the /api/analyze pipeline (extractor selection, content  *)
(* extraction, LLM analysis, JSON-file cache, question answering) of       *)
(* app/api/routers/analyzer.py and the services it calls.                  *)
(*                                                                         *)
(* Strings whose characters the code inspects (URLs, questions, regular    *)
(* expressions, keywords) are sequences of one-character strings.  Strings *)
(* the code only stores or compares are TLA+ strings.                      *)
(***************************************************************************)
EXTENDS Integers, Sequences, FiniteSets, TLC

VARIABLES
    file,     \* data/db.json as app/db/json_db.py leaves it on disk
    reqs,     \* the HTTP requests received so far, in order of arrival
    loop,     \* 0, or the number of the request running on the event loop
    saved,    \* URLs for which an /analyze handler saw save_company_data return
    ufile,    \* the file of app/utils/database.py's JsonDatabase
    ghost,    \* store algebra: the last value put under each key
    probe     \* one call of a pure function: [fn, in, out]

vars == <<file, reqs, loop, saved, ufile, ghost, probe>>

-----------------------------------------------------------------------------
(* Characters and strings                                                  *)

UpperChars == <<"A","B","C","D","E","F","G","H","I","J","K","L","M",
                "N","O","P","Q","R","S","T","U","V","W","X","Y","Z">>
LowerChars == <<"a","b","c","d","e","f","g","h","i","j","k","l","m",
                "n","o","p","q","r","s","t","u","v","w","x","y","z">>

\* str.lower() on one character
lower_char(c) ==
    IF \E i \in 1..Len(UpperChars) : UpperChars[i] = c
    THEN LowerChars[CHOOSE i \in 1..Len(UpperChars) : UpperChars[i] = c]
    ELSE c

\* str.lower()
str_lower(s) == [i \in 1..Len(s) |-> lower_char(s[i])]

\* Python's `needle in hay` for strings
str_in(needle, hay) ==
    \E i \in 0..(Len(hay) - Len(needle)) :
        \A j \in 1..Len(needle) : hay[i + j] = needle[j]

\* the characters \s matches and str.strip() removes
Whitespace == { " ", "\t" }

\* str.lstrip(chars), str.rstrip(chars), str.strip()
RECURSIVE str_lstrip(_, _)
str_lstrip(s, chars) ==
    IF s # <<>> /\ Head(s) \in chars THEN str_lstrip(Tail(s), chars) ELSE s

RECURSIVE str_rstrip(_, _)
str_rstrip(s, chars) ==
    IF s # <<>> /\ s[Len(s)] \in chars
    THEN str_rstrip(SubSeq(s, 1, Len(s) - 1), chars) ELSE s

str_strip(s) == str_rstrip(str_lstrip(s, Whitespace), Whitespace)

\* the pieces of a string put together in order
RECURSIVE str_join(_)
str_join(pieces) ==
    IF Len(pieces) = 0 THEN <<>>
    ELSE IF Len(pieces) = 1 THEN pieces[1]
    ELSE LET half == Len(pieces) \div 2
         IN  str_join(SubSeq(pieces, 1, half)) \o
             str_join(SubSeq(pieces, half + 1, Len(pieces)))

\* re.sub(r'\s+', ' ', s): each run of whitespace gives one space, at the
\* place of its first character
re_sub_spaces(s) ==
    str_join([ i \in 1..Len(s) |->
                 IF s[i] \notin Whitespace THEN << s[i] >>
                 ELSE IF i = 1 \/ s[i - 1] \notin Whitespace THEN << " " >>
                 ELSE <<>> ])

\* the places where sep occurs in s (0-based, as str.find gives them)
str_find_all(s, sep) ==
    { i \in 0..(Len(s) - Len(sep)) : \A j \in 1..Len(sep) : s[i + j] = sep[j] }

\* s.split(sep)[-1] and s.split(sep)[0], for a sep that cannot overlap
\* itself
str_split_last(s, sep) ==
    LET at == str_find_all(s, sep) IN
    IF at = {} THEN s
    ELSE LET last == CHOOSE i \in at : \A k \in at : k <= i
         IN  SubSeq(s, last + Len(sep) + 1, Len(s))

str_split_first(s, sep) ==
    LET at == str_find_all(s, sep) IN
    IF at = {} THEN s
    ELSE LET first == CHOOSE i \in at : \A k \in at : i <= k
         IN  SubSeq(s, 1, first)

RECURSIVE Flatten(_)
Flatten(parts) ==
    IF parts = <<>> THEN <<>> ELSE Head(parts) \o Flatten(Tail(parts))

Pending == [kind |-> "pending"]

-----------------------------------------------------------------------------
(* Regular expressions of re.search, for the patterns the code uses:       *)
(* literal characters, "\c" (the character c itself) and "." (any          *)
(* character).                                                             *)

RECURSIVE re_compile(_)
re_compile(p) ==
    IF p = <<>> THEN <<>>
    ELSE IF p[1] = "\\" /\ Len(p) >= 2
         THEN <<[any |-> FALSE, ch |-> p[2]]>> \o re_compile(SubSeq(p, 3, Len(p)))
    ELSE IF p[1] = "."
         THEN <<[any |-> TRUE, ch |-> "."]>> \o re_compile(Tail(p))
    ELSE <<[any |-> FALSE, ch |-> p[1]]>> \o re_compile(Tail(p))

re_elem_match(e, c, ignorecase) ==
    \/ e.any
    \/ IF ignorecase THEN lower_char(e.ch) = lower_char(c) ELSE e.ch = c

\* re.search(pattern, string, flags): does the pattern match anywhere?
re_search_nocase_bug(pattern, string, ignorecase) ==
    LET re == re_compile(pattern) IN
    \E i \in 0..(Len(string) - Len(re)) :
        \A j \in 1..Len(re) : re_elem_match(re[j], string[i + j], FALSE)

re_search(pattern, string, ignorecase) ==
    LET re == re_compile(pattern) IN
    \E i \in 0..(Len(string) - Len(re)) :
        \A j \in 1..Len(re) : re_elem_match(re[j], string[i + j], ignorecase)

-----------------------------------------------------------------------------
(* Extractor selection: ExtractorService.select_best_extractor and         *)
(* ExtractorFactory.create_extractor                                       *)

BEAUTIFUL_SOUP == "beautiful_soup"
PLAYWRIGHT     == "playwright"

spa_patterns ==
    << <<"r","e","a","c","t">>, <<"v","u","e">>,
       <<"a","n","g","u","l","a","r">>, <<"s","v","e","l","t","e">>,
       <<"n","e","x","t","\\",".","j","s">>, <<"n","u","x","t">> >>

ecommerce_patterns ==
    << <<"s","h","o","p","i","f","y">>, <<"m","a","g","e","n","t","o">>,
       <<"w","o","o","c","o","m","m","e","r","c","e">>,
       <<"b","i","g","c","o","m","m","e","r","c","e">> >>

\* the for loop with its break: the first pattern found ends the loop
RECURSIVE select_loop(_, _, _)
select_loop(patterns, url, extractor_type) ==
    IF patterns = <<>> THEN extractor_type
    ELSE IF re_search(Head(patterns), url, TRUE) THEN PLAYWRIGHT
    ELSE select_loop(Tail(patterns), url, extractor_type)

select_best_extractor(url) ==
    select_loop(spa_patterns \o ecommerce_patterns, url, BEAUTIFUL_SOUP)

create_extractor(extractor_type) ==
    IF extractor_type = BEAUTIFUL_SOUP
    THEN [raised |-> FALSE, extractor |-> "BeautifulSoupExtractor"]
    ELSE IF extractor_type = PLAYWRIGHT
    THEN [raised |-> FALSE, extractor |-> "PlaywrightExtractor"]
    ELSE [raised |-> TRUE, extractor |-> "ValueError"]

-----------------------------------------------------------------------------
(* URLs tried against the selector: up to MaxUrlParts fragments joined     *)

MaxUrlParts == 2

UrlFragments ==
    { <<"h","t","t","p","s",":","/","/">>,
      <<"a","c","m","e",".","t","e","s","t">>,
      <<"R","e","a","c","t">>, <<"V","U","E">>,
      <<"A","n","g","u","l","a","r">>, <<"s","v","e","l","t","e">>,
      <<"N","e","x","t",".","J","S">>, <<"n","e","x","t","x","j","s">>,
      <<"n","u","x","t">>, <<"S","h","o","p">>,
      <<"i","f","y",".","c","o","m">>, <<"M","A","G","E","N","T","O">>,
      <<"w","o","o">>, <<"C","o","m","m","e","r","c","e">>,
      <<"b","i","g">>, <<"r","e","a">>, <<"c","t">> }

SelectUrls ==
    { Flatten(parts) : parts \in UNION { [1..n -> UrlFragments] : n \in 0..MaxUrlParts } }

-----------------------------------------------------------------------------
(* Values.  Optional[T] is a sequence: None is <<>> and a value v is <<v>>. *)
(* A float confidence is held in tenths (0.9 is 9).  A URL-typed field is   *)
(* tagged with what holds it: a JSON string, or pydantic's Url object.      *)

None    == <<>>
Some(v) == <<v>>

JStr(s)   == [type |-> "str", s |-> s]
UrlObj(s) == [type |-> "Url", s |-> s]

\* HttpUrl validation: the strings it accepts, and the form it keeps them in
\* (a host-only URL gains its path "/")
HttpUrlForm(s) ==
    CASE s = "https://acme.test"  -> Some("https://acme.test/")
      [] s = "https://acme.test/" -> Some("https://acme.test/")
      [] OTHER                    -> None

-----------------------------------------------------------------------------
(* app/models/business.py: pydantic validation of the models.  A field     *)
(* declared Field(...) is required; a field declared Field(None) defaults  *)
(* to None.  The input is a mapping from field names to values.            *)

Has(obj, f) == f \in DOMAIN obj
OptField(obj, f) == IF Has(obj, f) THEN obj[f] ELSE None

Industry_ok(o) == Has(o, "industry") /\ Has(o, "confidence_score")
Industry_new(o) ==
    [ industry         |-> o["industry"],
      confidence_score |-> o["confidence_score"],
      sub_industries   |-> OptField(o, "sub_industries") ]

CompanySize_ok(o) == Has(o, "size_category") /\ Has(o, "confidence_score")
CompanySize_new(o) ==
    [ size_category    |-> o["size_category"],
      employee_range   |-> OptField(o, "employee_range"),
      confidence_score |-> o["confidence_score"] ]

Location_ok(o) == Has(o, "confidence_score")
Location_new(o) ==
    [ headquarters           |-> OptField(o, "headquarters"),
      offices                |-> OptField(o, "offices"),
      countries_of_operation |-> OptField(o, "countries_of_operation"),
      confidence_score       |-> o["confidence_score"] ]

BusinessDetails_required ==
    { "company_name", "website_url", "industry", "company_size", "location",
      "description", "products_services" }

BusinessDetails_ok(o) ==
    /\ BusinessDetails_required \subseteq DOMAIN o
    /\ HttpUrlForm(o["website_url"].s) # None
    /\ Industry_ok(o["industry"])
    /\ CompanySize_ok(o["company_size"])
    /\ Location_ok(o["location"])

\* BusinessDetails(**o): the validated model, or ValidationError
BusinessDetails_new(o) ==
    IF BusinessDetails_ok(o)
    THEN [ raised |-> FALSE,
           value  |->
             [ company_name      |-> o["company_name"],
               website_url       |-> UrlObj(HttpUrlForm(o["website_url"].s)[1]),
               industry          |-> Industry_new(o["industry"]),
               company_size      |-> CompanySize_new(o["company_size"]),
               location          |-> Location_new(o["location"]),
               description       |-> o["description"],
               products_services |-> o["products_services"],
               technologies      |-> OptField(o, "technologies"),
               founded_year      |-> OptField(o, "founded_year") ] ]
    ELSE [ raised |-> TRUE, exc |-> "ValidationError" ]

\* BusinessDetails.parse_raw(text): json.loads, then validation
parse_raw(text) ==
    IF text.json THEN BusinessDetails_new(text.obj)
    ELSE [ raised |-> TRUE, exc |-> "ValidationError" ]

\* model.model_dump(): a dict of the field values as Python objects; the
\* website_url stays the Url object
model_dump(m) == m

\* app/models/question.py: QuestionResponse(answer=, confidence=, source=);
\* answer: str rejects None
QuestionResponse_new(answer, confidence, source) ==
    IF answer = None
    THEN [ raised |-> TRUE, exc |-> "ValidationError" ]
    ELSE [ raised |-> FALSE,
           value  |-> [ answer |-> answer[1], confidence |-> confidence,
                        source |-> source ] ]

-----------------------------------------------------------------------------
(* What the completion endpoint can send back for the analysis prompt      *)

AcmeObj ==
    [ company_name |-> "Acme Inc",
      website_url  |-> JStr("https://acme.test"),
      industry     |-> [ industry |-> "Software", confidence_score |-> 9,
                         sub_industries |-> Some(<<"SaaS">>) ],
      company_size |-> [ size_category |-> "small", confidence_score |-> 7 ],
      location     |-> [ headquarters |-> Some("Paris"), confidence_score |-> 5 ],
      description  |-> "We sell widgets",
      products_services |-> <<"widgets">>,
      founded_year |-> Some(1999) ]

\* the same company with "headquarters": null
NoHqObj ==
    [ AcmeObj EXCEPT !.location =
        [ headquarters |-> None, confidence_score |-> 1 ] ]

\* "Not found" where the URL belongs
BadUrlObj == [ AcmeObj EXCEPT !.website_url = JStr("Not found") ]

\* an object without its "industry" member
NoIndustryObj == [ f \in DOMAIN AcmeObj \ {"industry"} |-> AcmeObj[f] ]

NotJson == [ json |-> FALSE ]
JsonText(o) == [ json |-> TRUE, obj |-> o ]

ValidAnalysisTexts   == { JsonText(AcmeObj), JsonText(NoHqObj) }
InvalidAnalysisTexts == { NotJson, JsonText(BadUrlObj), JsonText(NoIndustryObj) }
AnalysisTexts        == ValidAnalysisTexts \cup InvalidAnalysisTexts

\* gpt_call: the text of the completion, or an exception of the client
TransportError == [ raised |-> TRUE, exc |-> "APIConnectionError" ]
GptText(t)     == [ raised |-> FALSE, text |-> t ]

-----------------------------------------------------------------------------
(* app/services/ai_service.py                                              *)

industry_keywords ==
    << <<"i","n","d","u","s","t","r","y">>, <<"s","e","c","t","o","r">>,
       <<"b","u","s","i","n","e","s","s"," ","t","y","p","e">> >>

size_keywords ==
    << <<"s","i","z","e">>, <<"e","m","p","l","o","y","e","e","s">>,
       <<"h","o","w"," ","b","i","g">>,
       <<"h","o","w"," ","m","a","n","y"," ","p","e","o","p","l","e">> >>

location_keywords ==
    << <<"l","o","c","a","t","i","o","n">>,
       <<"h","e","a","d","q","u","a","r","t","e","r","s">>,
       <<"w","h","e","r","e">>, <<"b","a","s","e","d">> >>

\* any(keyword in question for keyword in keywords)
any_keyword_in(keywords, question) ==
    \E i \in 1..Len(keywords) : str_in(keywords[i], question)

NoAnswer == [ kind |-> "none" ]

\* the value the function returns, or the exception its constructor raises
AnswerOf(made) ==
    IF made.raised THEN [ kind |-> "raise", exc |-> made.exc ]
    ELSE [ kind |-> "answer", value |-> made.value ]

\* the same function with the size and location blocks in the other order
extract_answer_location_first(question, business_details) ==
    LET q == str_lower(question) IN
    IF any_keyword_in(industry_keywords, q)
    THEN AnswerOf(QuestionResponse_new(
             Some(business_details.industry.industry),
             business_details.industry.confidence_score, "industry_data"))
    ELSE IF any_keyword_in(location_keywords, q)
    THEN AnswerOf(QuestionResponse_new(
             business_details.location.headquarters,
             business_details.location.confidence_score, "location_data"))
    ELSE IF any_keyword_in(size_keywords, q)
    THEN AnswerOf(QuestionResponse_new(
             Some(business_details.company_size.size_category),
             business_details.company_size.confidence_score, "company_size_data"))
    ELSE NoAnswer

\* AIService.extract_answer_from_business_details
extract_answer_from_business_details(question, business_details) ==
    LET q == str_lower(question) IN
    IF any_keyword_in(industry_keywords, q)
    THEN AnswerOf(QuestionResponse_new(
             Some(business_details.industry.industry),
             business_details.industry.confidence_score, "industry_data"))
    ELSE IF any_keyword_in(size_keywords, q)
    THEN AnswerOf(QuestionResponse_new(
             Some(business_details.company_size.size_category),
             business_details.company_size.confidence_score, "company_size_data"))
    ELSE IF any_keyword_in(location_keywords, q)
    THEN AnswerOf(QuestionResponse_new(
             business_details.location.headquarters,
             business_details.location.confidence_score, "location_data"))
    ELSE NoAnswer

\* AIService.call_llm, given what gpt_call does.  The except block logs
\* response_text, which is unbound when gpt_call itself raised, and then
\* builds BusinessDetails() with no field given.
call_llm(gpt) ==
    IF gpt.raised
    THEN [ raised |-> TRUE, exc |-> "UnboundLocalError" ]
    ELSE LET business_data == parse_raw(gpt.text) IN
         IF ~business_data.raised THEN business_data
         ELSE BusinessDetails_new(<<>>)

\* AIService.analyze_website: builds the enriched content and calls call_llm
analyze_website(extracted_data, url, gpt) == call_llm(gpt)

\* What the completion endpoint can send back for the question prompt
AnswerTexts ==
    { NotJson,
      JsonText([ answer |-> Some("Jane Roe"), confidence |-> 8 ]),
      JsonText([ answer |-> Some("Jane Roe"), confidence |-> 15 ]),
      JsonText([ answer |-> None, confidence |-> 2 ]),
      JsonText([ confidence |-> 3 ]) }

FallbackAnswer ==
    [ answer     |-> Some("I couldn't find a reliable answer to your question."),
      confidence |-> 0,
      sources    |-> <<>> ]

\* AIService.analyze_with_llm: the parsed JSON of the completion, or the
\* fixed dict of the except block
analyze_with_llm(question, context, company_context, gpt) ==
    IF gpt.raised \/ ~gpt.text.json THEN FallbackAnswer
    ELSE gpt.text.obj

\* dict.get(key, default)
dict_get(d, key, default) == IF key \in DOMAIN d THEN d[key] ELSE default

-----------------------------------------------------------------------------
(* app/extractors: a page is what the fetch or the browser session gives:  *)
(* an error, or the text of the page.  A text is held by its length:       *)
(* text[:n] has the length min(len(text), n).                              *)

MAX_CONTENT == 8000

\* text[:n] on a text of length len
slice_to(len, n) == IF len < n THEN len ELSE n

ExtractedRecord(title, content) ==
    [ raised |-> FALSE,
      value  |-> [ title |-> title, meta_description |-> "",
                   meta_keywords |-> "", content |-> content ] ]

ExtractionError == [ raised |-> TRUE, exc |-> "ExtractionError" ]

\* BeautifulSoupExtractor.extract: page.len is the length of the cleaned
\* text of the fetched document
BeautifulSoupExtractor_extract(url, page) ==
    IF ~page.ok THEN ExtractionError
    ELSE LET text == IF page.len > MAX_CONTENT
                     THEN slice_to(page.len, MAX_CONTENT) ELSE page.len
         IN  ExtractedRecord(page.title, text)

\* PlaywrightExtractor.extract: page.len is the length of
\* document.body.innerText
PlaywrightExtractor_extract(url, page) ==
    IF ~page.ok THEN ExtractionError
    ELSE LET content == IF page.len > MAX_CONTENT
                        THEN slice_to(page.len, MAX_CONTENT) ELSE page.len
         IN  ExtractedRecord(page.title, content)

\* Crew4AIExtractor._process_results on a completed job: page.len is the
\* length of data["content"]
Crew4AIExtractor_process_results(job_result, original_url) ==
    [ raised |-> FALSE,
      value  |-> [ url |-> original_url, title |-> job_result.title,
                   content |-> job_result.len ] ]

\* Crew4AIExtractor.extract, given the job's outcome
Crew4AIExtractor_extract(url, page) ==
    IF ~page.ok THEN [ raised |-> TRUE, exc |-> "ValueError" ]
    ELSE Crew4AIExtractor_process_results(page, url)

\* extractor.extract(url) for the extractor the factory made
extractor_extract(extractor, url, page) ==
    IF extractor = "BeautifulSoupExtractor"
    THEN BeautifulSoupExtractor_extract(url, page)
    ELSE PlaywrightExtractor_extract(url, page)

\* ExtractorService.extract_website_content: select, create, extract; any
\* exception is logged and raised again
extract_website_content(url, page) ==
    LET extractor_type == select_best_extractor(url)
        made == create_extractor(extractor_type)
    IN  IF made.raised THEN [ raised |-> TRUE, exc |-> made.extractor ]
        ELSE extractor_extract(made.extractor, url, page)

\* lengths of page text tried: around the limit, and OverLimit past it
OverLimit == 2

PageLens ==
    { 0, 1, MAX_CONTENT - 1, MAX_CONTENT } \cup
    { MAX_CONTENT + k : k \in 1..OverLimit }

FailedPage == [ ok |-> FALSE ]
Pages == { FailedPage } \cup { [ ok |-> TRUE, title |-> "Acme", len |-> n ] : n \in PageLens }

-----------------------------------------------------------------------------
(* app/services: web search.  A backend query gives an exception or a list *)
(* of raw results; a raw result is a dict.                                 *)

\* the same with the entries in the opposite order
FormatResults_reversed(results, snippet_key) ==
    [ results |->
        [ i \in 1..Len(results) |->
            [ title   |-> dict_get(results[Len(results) + 1 - i], "title", ""),
              snippet |-> dict_get(results[Len(results) + 1 - i], snippet_key, ""),
              link    |-> dict_get(results[Len(results) + 1 - i], "link", "") ] ] ]

FormatResults(results, snippet_key) ==
    [ results |->
        [ i \in 1..Len(results) |->
            [ title   |-> dict_get(results[i], "title", ""),
              snippet |-> dict_get(results[i], snippet_key, ""),
              link    |-> dict_get(results[i], "link", "") ] ] ]

\* the words of a product-related question, and the separator 'of'
product_words ==
    << <<"p","r","o","d","u","c","t">>, <<"s","e","r","v","i","c","e">>,
       <<"o","f","f","e","r">>, <<"p","r","o","v","i","d","e">> >>

of_separator == <<"o","f">>

\* DuckDuckGoSearchService._clean_query
_clean_query(query) ==
    LET spaced   == str_strip(re_sub_spaces(query))
        stripped == str_rstrip(spaced, {"?"})
    IN  IF any_keyword_in(product_words, str_lower(stripped))
        THEN LET company_name ==
                     IF str_in(of_separator, stripped)
                     THEN Some(str_strip(str_split_last(stripped, of_separator)))
                     ELSE None
             IN  IF company_name # None /\ company_name[1] # <<>>
                 THEN company_name[1] \o <<" ">> \o stripped
                 ELSE stripped
        ELSE stripped

\* the keyword arguments of the attempts, in the order of the list; time ""
\* is a call without the time argument
search_params ==
    << [ max_results |-> 5,  safesearch |-> "moderate", time |-> "" ],
       [ max_results |-> 10, safesearch |-> "off",      time |-> "" ],
       [ max_results |-> 5,  safesearch |-> "moderate", time |-> "y" ] >>

\* the keyword arguments of the more general search
fallback_params == [ max_results |-> 5, safesearch |-> "moderate", time |-> "" ]

\* one call of ddgs.text
DdgCall(query, params) == [ query |-> query, params |-> params ]

\* a loop that goes on after a hit and keeps the last one
RECURSIVE ddg_last_hit(_, _, _)
ddg_last_hit(backend, i, last) ==
    IF i > last THEN 0
    ELSE IF ~backend[last].raised /\ backend[last].results # <<>> THEN last
    ELSE ddg_last_hit(backend, i, last - 1)

\* the for loop over search_params: the first attempt (from attempt i on)
\* that neither raises nor comes back empty, or 0
RECURSIVE ddg_first_hit(_, _, _)
ddg_first_hit(backend, i, last) ==
    IF i > last THEN 0
    ELSE IF ~backend[i].raised /\ backend[i].results # <<>> THEN i
    ELSE ddg_first_hit(backend, i + 1, last)

SEARCH_PARAMS == 3

\* DuckDuckGoSearchService.search_web: backend[i] is what the i-th call of
\* ddgs.text gives.  [raised, result, queries, calls]: what is returned, how
\* many calls of ddgs.text were made, and the calls in their order.
DuckDuckGoSearchService_search_web(query, backend) ==
    LET cleaned_query == _clean_query(query)
        hit   == ddg_first_hit(backend, 1, SEARCH_PARAMS)
        tried == IF hit # 0 THEN hit ELSE SEARCH_PARAMS
        loop_calls == [ i \in 1..tried |-> DdgCall(cleaned_query, search_params[i]) ]
    IN
    IF hit # 0
    THEN [ raised |-> FALSE, queries |-> hit, calls |-> loop_calls,
           result |-> Some(FormatResults(backend[hit].results, "body")) ]
    ELSE LET fallback == backend[SEARCH_PARAMS + 1]
             calls == Append(loop_calls,
                             DdgCall(str_split_first(cleaned_query, <<"?">>),
                                     fallback_params))
         IN
         IF ~fallback.raised /\ fallback.results # <<>>
         THEN [ raised |-> FALSE, queries |-> SEARCH_PARAMS + 1, calls |-> calls,
                result |-> Some(FormatResults(fallback.results, "body")) ]
         ELSE [ raised |-> FALSE, queries |-> SEARCH_PARAMS + 1, calls |-> calls,
                result |-> None ]

\* WebSearchService.search_web: serp is what the key-based backend gives:
\* no key configured, an exception, or the response dict
WebSearchService_search_web(query, serp) ==
    IF serp.kind = "no_key" \/ serp.kind = "raise"
    THEN [ raised |-> FALSE, queries |-> IF serp.kind = "raise" THEN 1 ELSE 0,
           result |-> None ]
    ELSE IF "organic_results" \in DOMAIN serp.response
    THEN [ raised |-> FALSE, queries |-> 1,
           result |-> Some(FormatResults(serp.response["organic_results"], "snippet")) ]
    ELSE [ raised |-> FALSE, queries |-> 1, result |-> None ]

\* a factory that also falls back when the primary returns nothing
SearchServiceFactory_search_web_eager(query, use_duckduckgo, backend, serp) ==
    LET first == IF use_duckduckgo
                 THEN DuckDuckGoSearchService_search_web(query, backend)
                 ELSE WebSearchService_search_web(query, serp)
    IN
    IF ~first.raised /\ (first.result # None \/ ~use_duckduckgo)
    THEN [ result |-> first.result,
           ddg    |-> IF use_duckduckgo THEN first.queries ELSE 0,
           serp   |-> IF use_duckduckgo THEN 0 ELSE first.queries,
           primary |-> use_duckduckgo, secondary |-> ~use_duckduckgo ]
    ELSE LET second == WebSearchService_search_web(query, serp) IN
         [ result |-> IF ~second.raised THEN second.result ELSE None,
           ddg    |-> first.queries,
           serp   |-> second.queries,
           primary |-> TRUE, secondary |-> TRUE ]

\* SearchServiceFactory.search_web: [result, ddg, serp, primary, secondary]:
\* what is returned, the queries each backend received, and whether the
\* search_web of each service was called
SearchServiceFactory_search_web(query, use_duckduckgo, backend, serp) ==
    LET first == IF use_duckduckgo
                 THEN DuckDuckGoSearchService_search_web(query, backend)
                 ELSE WebSearchService_search_web(query, serp)
    IN
    IF ~first.raised
    THEN [ result |-> first.result,
           ddg    |-> IF use_duckduckgo THEN first.queries ELSE 0,
           serp   |-> IF use_duckduckgo THEN 0 ELSE first.queries,
           primary |-> use_duckduckgo, secondary |-> ~use_duckduckgo ]
    ELSE IF use_duckduckgo
    THEN LET second == WebSearchService_search_web(query, serp) IN
         [ result |-> IF ~second.raised THEN second.result ELSE None,
           ddg    |-> first.queries,
           serp   |-> second.queries,
           primary |-> TRUE, secondary |-> TRUE ]
    ELSE [ result |-> None, ddg |-> 0, serp |-> first.queries,
           primary |-> FALSE, secondary |-> TRUE ]

RawResult == [ title |-> "Acme - about", body |-> "Acme is led by Jane Roe",
               href |-> "https://acme.test/about" ]

BackendRaise == [ raised |-> TRUE, results |-> <<>> ]
BackendEmpty == [ raised |-> FALSE, results |-> <<>> ]
BackendHits  == [ raised |-> FALSE, results |-> <<RawResult>> ]

BackendOutcomes == { BackendRaise, BackendEmpty, BackendHits }
Backends == [ 1..(SEARCH_PARAMS + 1) -> BackendOutcomes ]

SerpOutcomes ==
    { [ kind |-> "no_key" ], [ kind |-> "raise" ],
      [ kind |-> "response", response |-> [ error |-> "no results" ] ],
      [ kind |-> "response",
        response |-> [ organic_results |->
                         << [ title |-> "Acme", snippet |-> "About Acme",
                              link |-> "https://acme.test/about" ] >> ] ] }

-----------------------------------------------------------------------------
(* app/db/json_db.py: the whole file is parsed on every read and written   *)
(* again on every write.  A dict is a function on its keys.                *)

EmptyDb == [ companies |-> <<>>, questions |-> <<>> ]

dict_set(d, key, value) ==
    [ k \in DOMAIN d \cup {key} |-> IF k = key THEN value ELSE d[k] ]

\* json.dump encodes dict, list, str, int, float, bool and None; for any
\* other object (pydantic's Url among them) it raises TypeError
json_encodable(data) ==
    \A u \in DOMAIN data.companies : data.companies[u].website_url.type = "str"

\* JsonDatabase._load_db: a missing or unparsable file reads as empty maps
_load_db(f) == IF f.state = "ok" THEN f.db ELSE EmptyDb

\* JsonDatabase._save_db: open(path, 'w') empties the file, json.dump writes
\* it piece by piece; an exception on the way is logged and swallowed, and
\* the file keeps the pieces written before it
_save_db(f, data) ==
    IF json_encodable(data) THEN [ state |-> "ok", db |-> data ]
    ELSE [ state |-> "corrupt", db |-> EmptyDb ]

\* the same, seeding the file whether it exists or not
_ensure_db_exists_always_seeds(f) == _save_db(f, EmptyDb)

\* JsonDatabase._ensure_db_exists
_ensure_db_exists(f) ==
    IF f.state = "absent" THEN _save_db(f, EmptyDb) ELSE f

\* JsonDatabase.get_company_data: Optional[BusinessDetails], or the
\* exception of BusinessDetails(**company_data)
JsonDatabase_get_company_data(f, company_url) ==
    LET db == _load_db(f) IN
    IF company_url \in DOMAIN db.companies
    THEN LET made == BusinessDetails_new(db.companies[company_url]) IN
         IF made.raised THEN made
         ELSE [ raised |-> FALSE, result |-> Some(made.value) ]
    ELSE [ raised |-> FALSE, result |-> None ]

\* JsonDatabase.save_company_data: [file, ret]
JsonDatabase_save_company_data(f, company_url, data) ==
    LET db  == _load_db(f)
        db2 == [ db EXCEPT !.companies =
                     dict_set(db.companies, company_url, model_dump(data)) ]
    IN  [ file |-> _save_db(f, db2), ret |-> TRUE ]

\* JsonDatabase.get_question_answer: Optional[dict]
JsonDatabase_get_question_answer(f, company_url, question) ==
    LET db == _load_db(f)
        company_questions == dict_get(db.questions, company_url, <<>>)
    IN  IF question \in DOMAIN company_questions
        THEN Some(company_questions[question]) ELSE None

\* save_question_answer between _load_db and _save_db: the loaded dict
\* with the answer put under the company and the question
with_question_answer(db, company_url, question, answer) ==
    LET qs == IF company_url \in DOMAIN db.questions
              THEN db.questions ELSE dict_set(db.questions, company_url, <<>>)
    IN  [ db EXCEPT !.questions =
              dict_set(qs, company_url,
                       dict_set(qs[company_url], question, answer)) ]

\* JsonDatabase.save_question_answer: [file, ret]
JsonDatabase_save_question_answer(f, company_url, question, answer) ==
    LET db  == _load_db(f)
        db2 == with_question_answer(db, company_url, question, answer)
    IN  [ file |-> _save_db(f, db2), ret |-> TRUE ]

-----------------------------------------------------------------------------
(* app/services/db_service.py: DatabaseService turns every exception of    *)
(* the database into None (reads) or False (writes)                        *)

get_company_data(f, company_url) ==
    LET got == JsonDatabase_get_company_data(f, company_url) IN
    IF got.raised THEN None ELSE got.result

save_company_data(f, company_url, data) ==
    JsonDatabase_save_company_data(f, company_url, data)

get_question_answer(f, company_url, question) ==
    LET cached_answer == JsonDatabase_get_question_answer(f, company_url, question) IN
    IF cached_answer # None
    THEN LET made == QuestionResponse_new(Some(cached_answer[1].answer),
                         cached_answer[1].confidence, cached_answer[1].source)
         IN  IF made.raised THEN None ELSE Some(made.value)
    ELSE None

save_question_answer(f, company_url, question, answer) ==
    JsonDatabase_save_question_answer(f, company_url, question, model_dump(answer))

-----------------------------------------------------------------------------
(* app/utils/database.py: the JsonDatabase of the tests.  Its values are   *)
(* dicts of the caller; nothing is caught.  [raised, file, result]         *)

EmptyUDb == [ companies |-> <<>>, answers |-> <<>> ]

\* JsonDatabase._ensure_db_exists
U_ensure_db_exists(f) ==
    IF f.state = "absent" THEN [ state |-> "ok", db |-> EmptyUDb ] ELSE f

\* JsonDatabase.save_company_data: _read_db, set the key, _write_db
U_save_company_data(f, url, data) ==
    IF f.state # "ok" THEN [ raised |-> TRUE, file |-> f ]
    ELSE [ raised |-> FALSE,
           file   |-> [ state |-> "ok",
                        db |-> [ f.db EXCEPT !.companies =
                                   dict_set(f.db.companies, url, data) ] ] ]

\* JsonDatabase.get_company_data
U_get_company_data(f, url) ==
    IF f.state # "ok" THEN [ raised |-> TRUE, result |-> None ]
    ELSE [ raised |-> FALSE,
           result |-> IF url \in DOMAIN f.db.companies
                      THEN Some(f.db.companies[url]) ELSE None ]

\* JsonDatabase.save_answer
U_save_answer(f, url, question, answer, confidence) ==
    IF f.state # "ok" THEN [ raised |-> TRUE, file |-> f ]
    ELSE LET as == IF url \in DOMAIN f.db.answers
                   THEN f.db.answers ELSE dict_set(f.db.answers, url, <<>>)
         IN  [ raised |-> FALSE,
               file   |-> [ state |-> "ok",
                            db |-> [ f.db EXCEPT !.answers =
                                       dict_set(as, url,
                                         dict_set(as[url], question,
                                           [ answer |-> answer,
                                             confidence |-> confidence ])) ] ] ]

\* JsonDatabase.get_answer
U_get_answer(f, url, question) ==
    IF f.state # "ok" THEN [ raised |-> TRUE, result |-> None ]
    ELSE LET as == dict_get(f.db.answers, url, <<>>) IN
         [ raised |-> FALSE,
           result |-> IF question \in DOMAIN as THEN Some(as[question]) ELSE None ]

-----------------------------------------------------------------------------
(* The pure functions, each called once on an input drawn from a bounded   *)
(* set                                                                     *)

MaxQuestionParts == 2

QuestionFragments ==
    { <<"W","h","a","t"," ","i","n","d","u","s","t","r","y"," ","i","s"," ",
        "t","h","i","s"," ","c","o","m","p","a","n","y"," ","i","n","?">>,
      <<"W","h","i","c","h"," ","S","E","C","T","O","R">>,
      <<"b","u","s","i","n","e","s","s"," ","t","y","p","e">>,
      <<"b","u","s","i","n","e","s","s">>,
      <<" ","t","y","p","e">>,
      <<"W","h","a","t"," ","S","I","Z","E">>,
      <<"E","m","p","l","o","y","e","e","s">>,
      <<"h","o","w"," ","b","i","g">>,
      <<"H","o","w"," ","m","a","n","y"," ","p","e","o","p","l","e">>,
      <<"L","o","c","a","t","i","o","n">>,
      <<"h","e","a","d","q","u","a","r","t","e","r","s">>,
      <<" ","W","h","e","r","e">>,
      <<"b","a","s","e","d">>,
      <<"W","h","o"," ","i","s"," ","t","h","e"," ","C","E","O">>,
      <<"?">> }

ProbeQuestions ==
    { Flatten(parts) :
        parts \in UNION { [1..n -> QuestionFragments] : n \in 0..MaxQuestionParts } }

\* the records the analysis can produce
CompanyRecords == { parse_raw(t).value : t \in ValidAnalysisTexts }

GptOutcomes == { TransportError } \cup { GptText(t) : t \in AnalysisTexts }

ExtractorNames ==
    { "BeautifulSoupExtractor", "PlaywrightExtractor", "Crew4AIExtractor" }

InitFile  == [ state |-> "ok", db |-> EmptyDb ]
InitUFile == [ state |-> "ok", db |-> [ companies |-> <<>>, answers |-> <<>> ] ]
InitGhost == [ companies |-> <<>>, questions |-> <<>>,
               ucompanies |-> <<>>, uanswers |-> <<>> ]

PipelineIdle ==
    /\ file = InitFile /\ reqs = <<>> /\ loop = 0 /\ saved = {}

StoreIdle ==
    /\ ufile = InitUFile /\ ghost = InitGhost

Call(fn, in) == [ fn |-> fn, in |-> in, out |-> Pending ]

FnInit ==
    /\ PipelineIdle
    /\ StoreIdle
    /\ \/ probe \in { Call("select", [ url |-> u ]) : u \in SelectUrls }
       \/ probe \in { Call("extract_answer", [ question |-> q, business_details |-> b ]) :
                        q \in ProbeQuestions, b \in CompanyRecords }
       \/ probe \in { Call("call_llm", [ gpt |-> g ]) : g \in GptOutcomes }
       \/ probe \in { Call("extract", [ extractor |-> e, page |-> p ]) :
                        e \in ExtractorNames, p \in Pages }

Return(out) ==
    /\ probe.out = Pending
    /\ probe' = [ probe EXCEPT !.out = out ]
    /\ UNCHANGED <<file, reqs, loop, saved, ufile, ghost>>

CallSelect ==
    /\ probe.fn = "select"
    /\ LET extractor_type == select_best_extractor(probe.in.url) IN
       Return([ kind |-> "return", type |-> extractor_type,
                made |-> create_extractor(extractor_type) ])

CallExtractAnswer ==
    /\ probe.fn = "extract_answer"
    /\ Return(extract_answer_from_business_details(
                  probe.in.question, probe.in.business_details))

CallLlm ==
    /\ probe.fn = "call_llm"
    /\ Return([ kind |-> "return", got |-> call_llm(probe.in.gpt) ])

ProbeUrl == <<"a","c","m","e",".","t","e","s","t">>

CallExtract ==
    /\ probe.fn = "extract"
    /\ Return([ kind |-> "return",
                got  |->
                  CASE probe.in.extractor = "BeautifulSoupExtractor" ->
                         BeautifulSoupExtractor_extract(ProbeUrl, probe.in.page)
                    [] probe.in.extractor = "PlaywrightExtractor" ->
                         PlaywrightExtractor_extract(ProbeUrl, probe.in.page)
                    [] OTHER ->
                         Crew4AIExtractor_extract(ProbeUrl, probe.in.page) ])

FnNext == CallSelect \/ CallExtractAnswer \/ CallLlm \/ CallExtract

SpecFn == FnInit /\ [][FnNext]_vars

(* C8: select(url) gives the Playwright (rendered) extractor exactly when  *)
(* the lower-cased URL contains one of the ten tokens, and the             *)
(* BeautifulSoup (static) extractor for every other URL.                   *)
RenderedTokens ==
    { <<"r","e","a","c","t">>, <<"v","u","e">>, <<"a","n","g","u","l","a","r">>,
      <<"s","v","e","l","t","e">>, <<"n","e","x","t",".","j","s">>,
      <<"n","u","x","t">>, <<"s","h","o","p","i","f","y">>,
      <<"m","a","g","e","n","t","o">>,
      <<"w","o","o","c","o","m","m","e","r","c","e">>,
      <<"b","i","g","c","o","m","m","e","r","c","e">> }

HasRenderedToken(url) == \E t \in RenderedTokens : str_in(t, str_lower(url))

C8_SelectorByToken ==
    (probe.fn = "select" /\ probe.out # Pending) =>
        /\ ~probe.out.made.raised
        /\ HasRenderedToken(probe.in.url) =>
             /\ probe.out.type = PLAYWRIGHT
             /\ probe.out.made.extractor = "PlaywrightExtractor"
        /\ ~HasRenderedToken(probe.in.url) =>
             /\ probe.out.type = BEAUTIFUL_SOUP
             /\ probe.out.made.extractor = "BeautifulSoupExtractor"

\* "Shop" joined with "ify.com": the token spans two fragments, in mixed case
C8_Witness ==
    /\ probe.fn = "select" /\ probe.out # Pending
    /\ probe.in.url = <<"S","h","o","p","i","f","y",".","c","o","m">>
    /\ probe.out.made.extractor = "PlaywrightExtractor"

(* C4: the lower-cased question is tried against the industry words, then  *)
(* the size words, then the location words; the first category with a word *)
(* in the question decides, whatever later categories also match.  The     *)
(* answer is that category's field of the record with its confidence score *)
(* as it is and the tag industry_data, company_size_data or location_data; *)
(* a question with no word of any category gives None.  (Where the         *)
(* location decides and the record has no headquarters, the location       *)
(* answer is the one being built when the constructor raises.)             *)
IndustryWords ==
    { <<"i","n","d","u","s","t","r","y">>, <<"s","e","c","t","o","r">>,
      <<"b","u","s","i","n","e","s","s"," ","t","y","p","e">> }
SizeWords ==
    { <<"s","i","z","e">>, <<"e","m","p","l","o","y","e","e","s">>,
      <<"h","o","w"," ","b","i","g">>,
      <<"h","o","w"," ","m","a","n","y"," ","p","e","o","p","l","e">> }
LocationWords ==
    { <<"l","o","c","a","t","i","o","n">>,
      <<"h","e","a","d","q","u","a","r","t","e","r","s">>,
      <<"w","h","e","r","e">>, <<"b","a","s","e","d">> }

Mentions(words, question) == \E w \in words : str_in(w, str_lower(question))

Answered(answer, confidence, source) ==
    [ kind  |-> "answer",
      value |-> [ answer |-> answer, confidence |-> confidence, source |-> source ] ]

C3_MalformedGivesEmptyRecord ==
    ( /\ probe.fn = "call_llm" /\ probe.out # Pending
      /\ ~probe.in.gpt.raised
      /\ parse_raw(probe.in.gpt.text).raised ) =>
        /\ ~probe.out.got.raised
        /\ BusinessDetails_required \subseteq DOMAIN probe.out.got.value

(* C10: every extractor's extract(url) returns a record whose content is   *)
(* at most 8000 characters long, whatever the length of the page text.     *)
C10_ContentAtMost8000 ==
    ( /\ probe.fn = "extract" /\ probe.out # Pending
      /\ ~probe.out.got.raised ) =>
        probe.out.got.value.content <= 8000

-----------------------------------------------------------------------------
(* The two stores on their own: puts to a few keys, and new instances      *)
(* opened on the same file                                                 *)

StoreUrls == { <<"a",".","t">>, <<"b",".","t">> }
StoreQuestions == { <<"w","h","e","r","e">>, <<"c","e","o">> }

StoreAnswers ==
    { [ answer |-> "Paris", confidence |-> 5, source |-> "location_data" ],
      [ answer |-> "Jane Roe", confidence |-> 8, source |-> "web_search" ] }

\* the dicts the tests store
UtilDatas ==
    { [ url |-> "https://example.com", mission |-> "Test mission" ],
      [ url |-> "https://example.com", mission |-> "To provide excellent service" ] }

StoreInit ==
    /\ PipelineIdle
    /\ StoreIdle
    /\ probe = Pending

StoreSaveCompany(u, data) ==
    /\ file'  = save_company_data(file, u, data).file
    /\ ghost' = [ ghost EXCEPT !.companies = dict_set(@, u, data) ]
    /\ UNCHANGED <<reqs, loop, saved, ufile, probe>>

StoreSaveAnswer(u, q, a) ==
    /\ file'  = save_question_answer(file, u, q, a).file
    /\ ghost' = [ ghost EXCEPT !.questions = dict_set(@, <<u, q>>, a) ]
    /\ UNCHANGED <<reqs, loop, saved, ufile, probe>>

\* JsonDatabase(db_path) again, on the same path
StoreReopen ==
    /\ file' = _ensure_db_exists(file)
    /\ probe' = [ kind |-> "reopened" ]
    /\ probe # probe'
    /\ UNCHANGED <<reqs, loop, saved, ufile, ghost>>

UtilSaveCompany(u, data) ==
    LET r == U_save_company_data(ufile, u, data) IN
    /\ ufile' = r.file
    /\ ghost' = IF r.raised THEN ghost
                ELSE [ ghost EXCEPT !.ucompanies = dict_set(@, u, data) ]
    /\ UNCHANGED <<file, reqs, loop, saved, probe>>

UtilSaveAnswer(u, q, a) ==
    LET r == U_save_answer(ufile, u, q, a.answer, a.confidence) IN
    /\ ufile' = r.file
    /\ ghost' = IF r.raised THEN ghost
                ELSE [ ghost EXCEPT !.uanswers =
                         dict_set(@, <<u, q>>,
                                  [ answer |-> a.answer, confidence |-> a.confidence ]) ]
    /\ UNCHANGED <<file, reqs, loop, saved, probe>>

UtilReopen ==
    /\ ufile' = U_ensure_db_exists(ufile)
    /\ probe' = [ kind |-> "util reopened" ]
    /\ probe # probe'
    /\ UNCHANGED <<file, reqs, loop, saved, ghost>>

StoreNext ==
    \/ \E u \in StoreUrls, b \in CompanyRecords : StoreSaveCompany(u, b)
    \/ \E u \in StoreUrls, q \in StoreQuestions, a \in StoreAnswers : StoreSaveAnswer(u, q, a)
    \/ StoreReopen

SpecStore == StoreInit /\ [][StoreNext]_vars

UtilStoreNext ==
    \/ \E u \in StoreUrls, d \in UtilDatas : UtilSaveCompany(u, d)
    \/ \E u \in StoreUrls, q \in StoreQuestions, a \in StoreAnswers : UtilSaveAnswer(u, q, a)
    \/ UtilReopen

SpecUtilStore == StoreInit /\ [][UtilStoreNext]_vars

Lookup(d, key) == IF key \in DOMAIN d THEN Some(d[key]) ELSE None

(* C2: in the cache store, get(url) after put(url, X) returns X, and after *)
(* a later put(url, Y) returns Y; get(url) and getAnswer(url, question)    *)
(* for a key never written return absent; a new instance opened on the     *)
(* same file returns what was written.  That is: after any puts and        *)
(* reopenings, every key reads as its last written value, or as absent.    *)
C2_ReadsLastWrite ==
    /\ \A u \in StoreUrls :
          get_company_data(file, u) = Lookup(ghost.companies, u)
    /\ \A u \in StoreUrls, q \in StoreQuestions :
          get_question_answer(file, u, q) = Lookup(ghost.questions, <<u, q>>)

\* the same of the JsonDatabase of app/utils/database.py, which holds
UtilReadsLastWrite ==
    /\ \A u \in StoreUrls :
          U_get_company_data(ufile, u) =
              [ raised |-> FALSE, result |-> Lookup(ghost.ucompanies, u) ]
    /\ \A u \in StoreUrls, q \in StoreQuestions :
          U_get_answer(ufile, u, q) =
              [ raised |-> FALSE, result |-> Lookup(ghost.uanswers, <<u, q>>) ]

-----------------------------------------------------------------------------
(* The search functions called on their own                                *)

MaxQueryParts == 3

QueryFragments ==
    { <<" ">>, <<" ","\t"," ">>, <<"?">>,
      <<"c","e","o">>,
      <<"b","e","s","t"," ","p","r","o","d","u","c","t"," ","o","f"," ",
        "c","o","m","p","a","n","y">>,
      <<"o","f">>,
      <<"O","F","F","E","R">>,
      <<"S","e","r","v","i","c","e","s">> }

CleanQueries ==
    { Flatten(parts) :
        parts \in UNION { [1..n -> QueryFragments] : n \in 0..MaxQueryParts } }

SearchQueries ==
    { <<"c","e","o">>,
      <<" ","c","e","o","?"," ","n","o","w","?","?">>,
      <<"b","e","s","t"," ","p","r","o","d","u","c","t"," ","o","f"," ",
        "c","o","m","p","a","n","y">> }

LinkedResult == [ title |-> "Acme - team", body |-> "The team of Acme",
                  link |-> "https://acme.test/team" ]
BareResult   == [ title |-> "Acme" ]

BackendTwoHits == [ raised |-> FALSE, results |-> <<LinkedResult, RawResult>> ]
BackendBare    == [ raised |-> FALSE, results |-> <<BareResult>> ]

ProbeBackends ==
    [ 1..(SEARCH_PARAMS + 1) ->
        { BackendRaise, BackendEmpty, BackendTwoHits, BackendBare } ]

SearchInit ==
    /\ PipelineIdle
    /\ StoreIdle
    /\ \/ probe \in { Call("clean_query", [ query |-> q ]) : q \in CleanQueries }
       \/ probe \in { Call("ddg_search", [ query |-> q, backend |-> b ]) :
                        q \in SearchQueries, b \in ProbeBackends }
       \/ probe \in { Call("search_web", [ query |-> <<"c","e","o">>, use_duckduckgo |-> d,
                                           backend |-> b, serp |-> k ]) :
                        d \in BOOLEAN, b \in Backends, k \in SerpOutcomes }

CallCleanQuery ==
    /\ probe.fn = "clean_query"
    /\ Return([ kind |-> "return", once |-> _clean_query(probe.in.query),
                twice |-> _clean_query(_clean_query(probe.in.query)) ])

CallDdgSearch ==
    /\ probe.fn = "ddg_search"
    /\ Return([ kind |-> "return",
                got  |-> DuckDuckGoSearchService_search_web(probe.in.query,
                                                            probe.in.backend) ])

CallSearchWeb ==
    /\ probe.fn = "search_web"
    /\ Return([ kind |-> "return",
                got  |-> SearchServiceFactory_search_web(
                             probe.in.query, probe.in.use_duckduckgo,
                             probe.in.backend, probe.in.serp) ])

SearchNext == CallCleanQuery \/ CallDdgSearch \/ CallSearchWeb

SpecSearch == SearchInit /\ [][SearchNext]_vars

\* an attempt that raised or came back with an empty list
AttemptFailed(o) == o.raised \/ o.results = <<>>

\* the parameter sets of the primary backend as the specification lists them
ListedParams ==
    << [ max_results |-> 5,  safesearch |-> "moderate", time |-> "" ],
       [ max_results |-> 10, safesearch |-> "off",      time |-> "" ],
       [ max_results |-> 5,  safesearch |-> "moderate", time |-> "y" ] >>

DdgSearched == probe.fn = "ddg_search" /\ probe.out # Pending

(* C11: the primary search backend makes its attempts with the three       *)
(* parameter sets in the listed order, goes on after an attempt that       *)
(* raised or returned nothing, stops at the first attempt with a non-empty *)
(* list and returns its results, and after three failures makes exactly    *)
(* one more attempt with the query cut at the first "?": at most four      *)
(* queries, exactly one when the first attempt succeeds.                   *)
C11_AttemptsInOrder ==
    DdgSearched =>
        LET calls   == probe.out.got.calls
            backend == probe.in.backend
            n       == Len(calls)
            cleaned == _clean_query(probe.in.query)
        IN  /\ n \in 1..4
            /\ probe.out.got.queries = n
            /\ \A i \in 1..n : i <= 3 =>
                   /\ calls[i].params = ListedParams[i]
                   /\ calls[i].query = cleaned
            /\ \A i \in 1..(n - 1) : AttemptFailed(backend[i])
            /\ n < 4 => ~AttemptFailed(backend[n])
            /\ n = 4 =>
                   /\ \A j \in 1..Len(calls[4].query) : calls[4].query[j] # "?"
                   /\ calls[4].query = str_split_first(cleaned, <<"?">>)
                   /\ calls[4].params.max_results = 5
            /\ ~AttemptFailed(backend[1]) => n = 1
            /\ ~AttemptFailed(backend[n]) =>
                   /\ probe.out.got.result # None
                   /\ Len(probe.out.got.result[1].results) = Len(backend[n].results)

C11_Witness ==
    /\ DdgSearched
    /\ Len(probe.out.got.calls) = 4
    /\ probe.in.backend[2].raised
    /\ probe.in.backend[3].results = <<>> /\ ~probe.in.backend[3].raised
    /\ probe.out.got.calls[4].query # probe.out.got.calls[3].query
    /\ probe.out.got.result # None

(* C12: the search of the primary backend never raises; when every attempt *)
(* raised or returned an empty list it returns null, and otherwise a       *)
(* record whose results list has one {title, snippet, link} entry for each *)
(* result of the backend, in the backend's order.                          *)
C12_NullOrOrderedResults ==
    DdgSearched =>
        LET got     == probe.out.got
            backend == probe.in.backend
        IN  /\ ~got.raised
            /\ (\A i \in 1..4 : AttemptFailed(backend[i])) <=> got.result = None
            /\ got.result # None =>
                 LET k   == CHOOSE i \in 1..4 :
                                /\ ~AttemptFailed(backend[i])
                                /\ \A j \in 1..(i - 1) : AttemptFailed(backend[j])
                     raw == backend[k].results
                     res == got.result[1].results
                 IN  /\ DOMAIN got.result[1] = { "results" }
                     /\ Len(res) = Len(raw)
                     /\ \A i \in 1..Len(raw) :
                            /\ DOMAIN res[i] = { "title", "snippet", "link" }
                            /\ res[i].title = raw[i].title
                            /\ "body" \in DOMAIN raw[i] => res[i].snippet = raw[i].body
                            /\ "link" \in DOMAIN raw[i] => res[i].link = raw[i].link

C12_Witness ==
    /\ DdgSearched
    /\ AttemptFailed(probe.in.backend[1])
    /\ probe.out.got.result # None
    /\ Len(probe.out.got.result[1].results) = 2
    /\ probe.out.got.result[1].results[1].title # probe.out.got.result[1].results[2].title

ProductWords ==
    { <<"p","r","o","d","u","c","t">>, <<"s","e","r","v","i","c","e">>,
      <<"o","f","f","e","r">>, <<"p","r","o","v","i","d","e">> }

\* s without its whitespace characters
Unspaced(s) ==
    str_join([ i \in 1..Len(s) |-> IF s[i] \in Whitespace THEN <<>> ELSE << s[i] >> ])

\* no run of whitespace but single spaces, none at either end, no "?" at
\* the end
Normalized(s) ==
    /\ \A i \in 1..Len(s) : s[i] \in Whitespace =>
           /\ s[i] = " "
           /\ i # 1 /\ i # Len(s)
           /\ s[i + 1] \notin Whitespace
    /\ s # <<>> => s[Len(s)] # "?"

(* C13: query normalization leaves no run of whitespace, no leading or     *)
(* trailing whitespace and no trailing "?"; a query with one of the words  *)
(* product, service, offer, provide and a text after its last "of" gets    *)
(* that text prepended; a query without those words is otherwise           *)
(* unchanged, and normalizing it twice gives the same as once.             *)
C13_QueryNormalized ==
    (probe.fn = "clean_query" /\ probe.out # Pending) =>
        LET q    == probe.in.query
            once == probe.out.once
        IN  IF Mentions(ProductWords, q)
            THEN \/ once = str_rstrip(str_strip(re_sub_spaces(q)), {"?"})
                 \/ \E name \in { str_strip(str_split_last(once, <<"o","f">>)) } :
                        /\ name # <<>>
                        /\ SubSeq(once, 1, Len(name) + 1) = name \o <<" ">>
                        /\ Normalized(SubSeq(once, Len(name) + 2, Len(once)))
            ELSE /\ Normalized(once)
                 /\ Unspaced(once) = str_rstrip(Unspaced(q), {"?"})
                 /\ probe.out.twice = once

(* C17: the key-based backend is called only when the primary raised or    *)
(* the caller deselected the primary; when the primary is selected and     *)
(* every attempt of it returned nothing without raising, the key-based     *)
(* backend is not called and the result is null.                           *)
C17_SecondaryOnlyAsFallback ==
    (probe.fn = "search_web" /\ probe.out # Pending) =>
        LET got == probe.out.got
            backend == probe.in.backend
        IN  /\ got.secondary =>
                   \/ ~probe.in.use_duckduckgo
                   \/ \E i \in 1..4 : backend[i].raised
            /\ got.serp > 0 => got.secondary
            /\ ( /\ probe.in.use_duckduckgo
                 /\ \A i \in 1..4 : backend[i] = BackendEmpty ) =>
                   /\ ~got.secondary
                   /\ got.serp = 0
                   /\ got.result = None

C17_Witness ==
    /\ probe.fn = "search_web" /\ probe.out # Pending
    /\ probe.in.use_duckduckgo
    /\ \A i \in 1..4 : probe.in.backend[i] = BackendEmpty
    /\ probe.in.serp.kind = "response"
    /\ "organic_results" \in DOMAIN probe.in.serp.response
    /\ probe.out.got.result = None

-----------------------------------------------------------------------------
(* PlaywrightExtractor.extract await by await.  The body runs inside       *)
(* `async with async_playwright() as p`; an exception raised by an await   *)
(* leaves the with block, whose exit stops the Playwright driver, and is   *)
(* then logged and raised again by the except clause.  Stopping the driver *)
(* ends every browser the driver launched.                                 *)

SessionUrls == { ProbeUrl, <<"v","u","e",".","t","e","s","t">> }

SessionPages == { pg \in Pages : pg.ok }

Session(url, page) ==
    [ fn |-> "session", in |-> [ url |-> url, page |-> page ],
      pc |-> "start", driver |-> "none", browser |-> "none",
      launched |-> FALSE, out |-> Pending ]

SessionInit ==
    /\ PipelineIdle
    /\ StoreIdle
    /\ probe \in { Session(u, pg) : u \in SessionUrls, pg \in SessionPages }

\* a driver that stops without ending its browsers
playwright_stop_keeps_browser(session) ==
    [ session EXCEPT !.driver = "stopped" ]

\* the exit of `async with async_playwright()`: playwright.stop()
playwright_stop(session) ==
    [ session EXCEPT !.driver = "stopped",
                     !.browser = IF @ = "open" THEN "closed" ELSE @ ]

\* an await inside the with block raised
session_raise(session) ==
    [ playwright_stop(session) EXCEPT !.pc = "raised", !.out = ExtractionError ]

\* the await at pc: it returns and the coroutine goes on to `to`, or raises
SessionAwait(pc, to, ok) ==
    /\ probe.fn = "session"
    /\ probe.pc = pc
    /\ probe' = IF ok THEN [ probe EXCEPT !.pc = to ] ELSE session_raise(probe)
    /\ UNCHANGED <<file, reqs, loop, saved, ufile, ghost>>

\* async_playwright().__aenter__: when it raises, no driver is running
StartPlaywright(ok) ==
    /\ probe.fn = "session"
    /\ probe.pc = "start"
    /\ probe' = IF ok THEN [ probe EXCEPT !.pc = "launch", !.driver = "running" ]
                ELSE [ probe EXCEPT !.pc = "raised", !.out = ExtractionError ]
    /\ UNCHANGED <<file, reqs, loop, saved, ufile, ghost>>

\* p.chromium.launch(headless=True)
LaunchBrowser(ok) ==
    /\ probe.fn = "session"
    /\ probe.pc = "launch"
    /\ probe' = IF ok
                THEN [ probe EXCEPT !.pc = "new_page", !.browser = "open",
                                    !.launched = TRUE ]
                ELSE session_raise(probe)
    /\ UNCHANGED <<file, reqs, loop, saved, ufile, ghost>>

NewPage(ok)         == SessionAwait("new_page", "set_headers", ok)
SetHeaders(ok)      == SessionAwait("set_headers", "goto", ok)
Goto(ok)            == SessionAwait("goto", "title", ok)
ReadTitle(ok)       == SessionAwait("title", "meta_description", ok)
EvaluateDescription(ok) == SessionAwait("meta_description", "meta_keywords", ok)
EvaluateKeywords(ok)    == SessionAwait("meta_keywords", "content", ok)
EvaluateContent(ok)     == SessionAwait("content", "close", ok)

\* await browser.close()
CloseBrowser(ok) ==
    /\ probe.fn = "session"
    /\ probe.pc = "close"
    /\ probe' = IF ok THEN [ probe EXCEPT !.pc = "return", !.browser = "closed" ]
                ELSE session_raise(probe)
    /\ UNCHANGED <<file, reqs, loop, saved, ufile, ghost>>

\* the return statement inside the with block
ReturnRecord ==
    /\ probe.fn = "session"
    /\ probe.pc = "return"
    /\ probe' = [ playwright_stop(probe) EXCEPT
                    !.pc = "returned",
                    !.out = PlaywrightExtractor_extract(probe.in.url, probe.in.page) ]
    /\ UNCHANGED <<file, reqs, loop, saved, ufile, ghost>>

SessionNext ==
    \/ \E ok \in BOOLEAN : StartPlaywright(ok)
    \/ \E ok \in BOOLEAN : LaunchBrowser(ok)
    \/ \E ok \in BOOLEAN : NewPage(ok)
    \/ \E ok \in BOOLEAN : SetHeaders(ok)
    \/ \E ok \in BOOLEAN : Goto(ok)
    \/ \E ok \in BOOLEAN : ReadTitle(ok)
    \/ \E ok \in BOOLEAN : EvaluateDescription(ok)
    \/ \E ok \in BOOLEAN : EvaluateKeywords(ok)
    \/ \E ok \in BOOLEAN : EvaluateContent(ok)
    \/ \E ok \in BOOLEAN : CloseBrowser(ok)
    \/ ReturnRecord

SpecSession == SessionInit /\ [][SessionNext]_vars

-----------------------------------------------------------------------------
(* Two writers on one database file, each a JsonDatabase of its own (two   *)
(* server processes, or two threads): save_question_answer is a _load_db   *)
(* and a _save_db with nothing that keeps another writer out in between.   *)

Writer(url, question, answer) ==
    [ url |-> url, question |-> question, answer |-> answer,
      pc |-> "idle", db |-> EmptyDb ]

WriterFiles ==
    { InitFile,
      [ state |-> "ok",
        db |-> with_question_answer(EmptyDb, <<"a",".","t">>, <<"s","i","z","e">>,
                   [ answer |-> "Medium", confidence |-> 7,
                     source |-> "company_size_data" ]) ] }

WritersInit ==
    /\ reqs = <<>> /\ loop = 0 /\ saved = {}
    /\ StoreIdle
    /\ file \in WriterFiles
    /\ probe \in { [ fn |-> "writers", w |-> <<w1, w2>> ] :
                     w1 \in { Writer(u, <<"c","e","o">>, [ answer |-> "Paris", confidence |-> 5, source |-> "location_data" ]) : u \in StoreUrls },
                     w2 \in { Writer(u, q, [ answer |-> "Jane Roe", confidence |-> 8, source |-> "web_search" ]) :
                                u \in StoreUrls, q \in StoreQuestions } }

\* the writer after db = self._load_db()
writer_load(f, w) == [ w EXCEPT !.pc = "loaded", !.db = _load_db(f) ]

\* a save that reads the file again before it writes
writer_save_merging(f, w) ==
    _save_db(f, with_question_answer(_load_db(f), w.url, w.question, w.answer))

\* the file after db["questions"][company_url][question] = answer and
\* self._save_db(db)
writer_save(f, w) ==
    _save_db(f, with_question_answer(w.db, w.url, w.question, w.answer))

WriterLoad(i) ==
    /\ probe.fn = "writers"
    /\ probe.w[i].pc = "idle"
    /\ probe' = [ probe EXCEPT !.w[i] = writer_load(file, @) ]
    /\ UNCHANGED <<file, reqs, loop, saved, ufile, ghost>>

WriterSave(i) ==
    /\ probe.fn = "writers"
    /\ probe.w[i].pc = "loaded"
    /\ file' = writer_save(file, probe.w[i])
    /\ probe' = [ probe EXCEPT !.w[i].pc = "done" ]
    /\ UNCHANGED <<reqs, loop, saved, ufile, ghost>>

WritersNext == \E i \in 1..2 : WriterLoad(i) \/ WriterSave(i)

SpecWriters == WritersInit /\ [][WritersNext]_vars

\* the answer the file holds under (url, question), if any
Stored(f, url, question) ==
    Lookup(dict_get(_load_db(f).questions, url, <<>>), question)

WriterKeys == { <<u, q>> : u \in StoreUrls, q \in StoreQuestions \cup { <<"s","i","z","e">> } }

(* C19: a writer's save overwrites the whole file with what that writer    *)
(* loaded, changed under its own key only: every other key reads after the *)
(* save as it read in the writer's copy, whatever another writer stored in *)
(* between.  So with two writers at the same time a final file that lacks  *)
(* one of the two written values is reachable.                             *)
C19_SaveOverwritesWholeFile ==
    [][ \A i \in 1..2 :
          ( /\ probe.fn = "writers"
            /\ probe.w[i].pc = "loaded"
            /\ probe'.w[i].pc = "done" ) =>
              LET w == probe.w[i] IN
              /\ Stored(file', w.url, w.question) = Some(w.answer)
              /\ \A k \in WriterKeys :
                     k # <<w.url, w.question>> =>
                         Stored(file', k[1], k[2]) =
                             Lookup(dict_get(w.db.questions, k[1], <<>>), k[2]) ]_vars

C19_Witness ==
    /\ probe.fn = "writers"
    /\ probe.w[1].pc = "done" /\ probe.w[2].pc = "done"
    /\ <<probe.w[1].url, probe.w[1].question>> # <<probe.w[2].url, probe.w[2].question>>
    /\ \E i \in 1..2 :
           Stored(file, probe.w[i].url, probe.w[i].question) = None

-----------------------------------------------------------------------------
(* The HTTP endpoints of app/api/routers/analyzer.py, mounted under /api   *)
(* by app/main.py.  A request is received, passes verify_api_key, and runs *)
(* its handler on the event loop; the handler keeps the loop until it      *)
(* returns or awaits the headless browser.                                 *)

MaxRequests == 2

APP_API_KEY == "your-secret-key-here"

AuthHeaders == { None, Some("wrong-key"), Some(APP_API_KEY) }

PipeUrls ==
    { <<"h","t","t","p","s",":","/","/","a",".","t">>,
      <<"h","t","t","p","s",":","/","/","v","u","e",".","t">> }

\* the question endpoint is driven with the rendered site, whose extraction
\* releases the event loop
QuestionUrls == { <<"h","t","t","p","s",":","/","/","v","u","e",".","t">> }

\* a url the request models accept (url: str) and no client can fetch
NotAUrl == <<"n","o","t","-","a","-","u","r","l">>

\* requests.get and page.goto raise for a url without an http(s) scheme
str_startswith(s, prefix) ==
    /\ Len(s) >= Len(prefix)
    /\ SubSeq(s, 1, Len(prefix)) = prefix

has_scheme(url) ==
    \/ str_startswith(url, <<"h","t","t","p",":","/","/">>)
    \/ str_startswith(url, <<"h","t","t","p","s",":","/","/">>)
PipeQuestions == { <<"W","h","e","r","e">>, <<"c","e","o">> }
NoQuestion == <<>>

PipePages == { FailedPage, [ ok |-> TRUE, title |-> "Acme", len |-> MAX_CONTENT + 1 ] }

PagesOf(url) == IF has_scheme(url) THEN PipePages ELSE { FailedPage }

\* the search backend answers every attempt alike, or fails the first
\* attempt and answers the next
PipeBackends ==
    { [ k \in 1..(SEARCH_PARAMS + 1) |-> o ] : o \in BackendOutcomes } \cup
    { [ k \in 1..(SEARCH_PARAMS + 1) |-> IF k = 1 THEN BackendRaise ELSE BackendHits ] }

AnswerGptOutcomes == { TransportError } \cup { GptText(t) : t \in AnswerTexts }

NoEffects ==
    [ reads |-> 0, writes |-> 0, selects |-> 0, extracts |-> 0, llm |-> 0,
      searches |-> 0, ddg |-> 0, serp |-> 0 ]

\* a request as received; valid: the body has the fields of the request
\* model, each a string; after_save: save_company_data had already
\* returned for this URL in an /analyze handler when the request arrived
NewRequest(ep, url, question, auth) ==
    [ ep |-> ep, url |-> url, question |-> question, auth |-> auth,
      valid |-> TRUE, pc |-> "received", status |-> 0, detail |-> "",
      extracted |-> None, company_data |-> None, search_results |-> None,
      answer |-> None, cached |-> FALSE,
      eff |-> NoEffects, after_save |-> url \in saved ]

\* the response is sent: the handler's locals are gone
Respond(r, status, answer) ==
    [ r EXCEPT !.pc = "done", !.status = status, !.answer = answer,
               !.extracted = None, !.company_data = None,
               !.search_results = None ]

\* raise HTTPException(status_code, detail)
Fail(r, status, detail) == [ Respond(r, status, None) EXCEPT !.detail = detail ]

Count(r, what) == [ r EXCEPT !.eff[what] = @ + 1 ]

\* a body without a url string
MalformedRequest(ep, auth) ==
    [ NewRequest(ep, <<>>, NoQuestion, auth) EXCEPT !.valid = FALSE ]

\* WebsiteRequest, QuestionRequest, DirectQuestionRequest: url and question
\* are str fields, so any string passes
request_model_ok(r) == r.valid

\* app/core/security.py verify_api_key: TRUE, or 401 raised (FALSE)
verify_api_key_any_header(api_key_header) ==
    api_key_header # None

verify_api_key(api_key_header) ==
    IF api_key_header = None \/ api_key_header[1] = "" THEN FALSE
    ELSE IF api_key_header[1] # APP_API_KEY THEN FALSE
    ELSE TRUE

\* log_api_call: json.dumps of the log entry; TRUE when it raises TypeError
\* (the response data holds an object json cannot encode)
log_api_call_raises(response_data) ==
    "website_url" \in DOMAIN response_data /\ response_data.website_url.type # "str"

\* analyze_website_endpoint up to the cache lookup: [file, r]
analyze_lookup(f, r) ==
    LET cached_data == get_company_data(f, r.url)
        r1 == Count(r, "reads")
    IN  IF cached_data # None
        THEN [ file |-> f,
               r    |-> IF log_api_call_raises(cached_data[1])
                        THEN Fail(r1, 500, "TypeError")
                        ELSE Respond([ r1 EXCEPT !.cached = TRUE ], 200, None) ]
        ELSE [ file |-> f, r |-> [ r1 EXCEPT !.pc = "extract" ] ]

\* answer_question up to the two cache lookups: [file, r]
question_lookup_always_miss(f, r) ==
    LET r1 == Count(r, "reads")
        company_data == get_company_data(f, r.url)
        r2 == Count(r1, "reads")
    IN  IF company_data = None
        THEN [ file |-> f, r |-> [ r2 EXCEPT !.pc = "extract" ] ]
        ELSE [ file |-> f,
               r    |-> [ r2 EXCEPT !.pc = "answer", !.company_data = company_data ] ]

question_lookup(f, r) ==
    LET cached_answer == get_question_answer(f, r.url, r.question)
        r1 == Count(r, "reads")
    IN  IF cached_answer # None
        THEN [ file |-> f,
               r    |-> Respond([ r1 EXCEPT !.cached = TRUE ], 200, cached_answer) ]
        ELSE LET company_data == get_company_data(f, r.url)
                 r2 == Count(r1, "reads")
             IN  IF company_data = None
                 THEN [ file |-> f, r |-> [ r2 EXCEPT !.pc = "extract" ] ]
                 ELSE [ file |-> f,
                        r    |-> [ r2 EXCEPT !.pc = "answer",
                                             !.company_data = company_data ] ]

\* direct_question: gpt_call, json.loads, DirectQuestionResponse (whose
\* confidence must lie in [0, 1]); everything that raises gives 500
direct_question(r, gpt) ==
    LET r1 == Count(r, "llm") IN
    IF gpt.raised THEN Fail(r1, 500, gpt.exc)
    ELSE IF ~gpt.text.json THEN Fail(r1, 500, "JSONDecodeError")
    ELSE LET answer == dict_get(gpt.text.obj, "answer", Some("I couldn't generate an answer."))
             confidence == dict_get(gpt.text.obj, "confidence", 0)
         IN  IF answer = None \/ confidence < 0 \/ confidence > 10
             THEN Fail(r1, 500, "ValidationError")
             ELSE Respond(r1, 200,
                          Some([ answer |-> answer[1], confidence |-> confidence ]))

\* the handler after ExtractorService.extract_website_content returned or
\* raised
\* the same, trying the extraction again when it raised
after_extract_retry(r, got) ==
    LET r1 == Count(Count(r, "selects"), "extracts") IN
    IF got.raised THEN [ r1 EXCEPT !.pc = "extract" ]
    ELSE [ r1 EXCEPT !.pc = "analyze", !.extracted = Some(got.value) ]

after_extract(r, got) ==
    LET r1 == Count(Count(r, "selects"), "extracts") IN
    IF got.raised THEN Fail(r1, 500, got.exc)
    ELSE [ r1 EXCEPT !.pc = "analyze", !.extracted = Some(got.value) ]

\* AIService.analyze_website in either handler
after_analyze(r, gpt) ==
    LET got == analyze_website(r.extracted[1], r.url, gpt)
        r1  == Count(r, "llm")
    IN  IF got.raised THEN Fail(r1, 500, got.exc)
        ELSE [ r1 EXCEPT !.pc = "save", !.company_data = Some(got.value) ]

\* analyze_website_endpoint from save_company_data to the response:
\* the success log entry holds business_details.dict()
analyze_save(f, r) ==
    LET put == save_company_data(f, r.url, r.company_data[1])
        r1  == Count(r, "writes")
    IN  [ file |-> put.file,
          r    |-> IF log_api_call_raises(r.company_data[1])
                   THEN Fail(r1, 500, "TypeError")
                   ELSE Respond(r1, 200, None) ]

\* answer_question: save_company_data after the analysis
question_save(f, r) ==
    LET put == save_company_data(f, r.url, r.company_data[1]) IN
    [ file |-> put.file, r |-> [ Count(r, "writes") EXCEPT !.pc = "answer" ] ]

\* answer_question: cache the answer, log it, return it
question_finish_no_save(f, r, answer) ==
    [ file |-> f, r |-> Respond(r, 200, Some(answer)) ]

question_finish(f, r, answer) ==
    LET put == save_question_answer(f, r.url, r.question, answer) IN
    [ file |-> put.file, r |-> Respond(Count(r, "writes"), 200, Some(answer)) ]

\* answer_question: the local answer, if any
question_answer(f, r) ==
    LET answer == extract_answer_from_business_details(r.question, r.company_data[1]) IN
    IF answer.kind = "raise" THEN [ file |-> f, r |-> Fail(r, 500, answer.exc) ]
    ELSE IF answer.kind = "none" THEN [ file |-> f, r |-> [ r EXCEPT !.pc = "search" ] ]
    ELSE question_finish(f, r, answer.value)

\* answer_question: the web search; no results end the request with 404
question_search_500_bug(r, found) ==
    LET r1 == [ Count(r, "searches") EXCEPT
                  !.eff.ddg  = @ + (IF found.primary THEN 1 ELSE 0),
                  !.eff.serp = @ + (IF found.secondary THEN 1 ELSE 0) ]
    IN
    IF found.result # None
    THEN [ r1 EXCEPT !.pc = "answer_llm", !.search_results = found.result ]
    ELSE Fail(r1, 500, "Not found")

question_search(r, found) ==
    LET r1 == [ Count(r, "searches") EXCEPT
                  !.eff.ddg  = @ + (IF found.primary THEN 1 ELSE 0),
                  !.eff.serp = @ + (IF found.secondary THEN 1 ELSE 0) ]
    IN
    IF found.result # None
    THEN [ r1 EXCEPT !.pc = "answer_llm", !.search_results = found.result ]
    ELSE Fail(r1, 404, "Could not find an answer to this question through web search")

\* answer_question: the answer from the search results
question_answer_llm(f, r, gpt) ==
    LET llm_response == analyze_with_llm(r.question, r.search_results[1],
                                         model_dump(r.company_data[1]), gpt)
        made == QuestionResponse_new(dict_get(llm_response, "answer", Some("")),
                                     dict_get(llm_response, "confidence", 0),
                                     "web_search")
        r1 == Count(r, "llm")
    IN  IF made.raised THEN [ file |-> f, r |-> Fail(r1, 500, made.exc) ]
        ELSE question_finish(f, r1, made.value)

-----------------------------------------------------------------------------
(* The server: requests arrive at any time; one coroutine runs at a time.  *)
(* loop is the request whose handler holds the event loop, 0 when idle.    *)
(* The database calls, the requests.get of the BeautifulSoup extractor and *)
(* the OpenAI and search clients do not yield; the Playwright session does.*)

Init ==
    /\ PipelineIdle
    /\ StoreIdle
    /\ probe = Pending

Step(i, r, f) ==
    /\ reqs' = [ reqs EXCEPT ![i] = r ]
    /\ file' = f
    /\ loop' = IF r.pc = "done" THEN 0 ELSE i
    /\ UNCHANGED <<ufile, ghost, probe>>

Running(i, pc) ==
    /\ i \in 1..Len(reqs)
    /\ loop = i
    /\ reqs[i].pc = pc

\* POST /api/analyze/
ReceiveAnalyze(url, auth) ==
    /\ Len(reqs) < MaxRequests
    /\ reqs' = Append(reqs, NewRequest("analyze", url, NoQuestion, auth))
    /\ UNCHANGED <<file, loop, saved, ufile, ghost, probe>>

\* POST /api/analyze/question
ReceiveQuestion(url, question, auth) ==
    /\ Len(reqs) < MaxRequests
    /\ reqs' = Append(reqs, NewRequest("question", url, question, auth))
    /\ UNCHANGED <<file, loop, saved, ufile, ghost, probe>>

\* POST /api/analyze/direct-question
ReceiveDirect(question, auth) ==
    /\ Len(reqs) < MaxRequests
    /\ reqs' = Append(reqs, NewRequest("direct", <<>>, question, auth))
    /\ UNCHANGED <<file, loop, saved, ufile, ghost, probe>>

\* Depends(verify_api_key): the dependency runs before the handler
Authorize(i) ==
    /\ i \in 1..Len(reqs)
    /\ loop = 0
    /\ reqs[i].pc = "received"
    /\ Step(i, IF ~verify_api_key(reqs[i].auth) THEN Respond(reqs[i], 401, None)
               ELSE IF ~request_model_ok(reqs[i]) THEN Respond(reqs[i], 422, None)
               ELSE [ reqs[i] EXCEPT !.pc = "handler" ],
            file)
    /\ UNCHANGED saved

AnalyzeLookup(i) ==
    /\ Running(i, "handler")
    /\ reqs[i].ep = "analyze"
    /\ LET to == analyze_lookup(file, reqs[i]) IN Step(i, to.r, to.file)
    /\ UNCHANGED saved

QuestionLookup(i) ==
    /\ Running(i, "handler")
    /\ reqs[i].ep = "question"
    /\ LET to == question_lookup(file, reqs[i]) IN Step(i, to.r, to.file)
    /\ UNCHANGED saved

DirectQuestion(i, gpt) ==
    /\ Running(i, "handler")
    /\ reqs[i].ep = "direct"
    /\ Step(i, direct_question(reqs[i], gpt), file)
    /\ UNCHANGED saved

\* extract_website_content with the BeautifulSoup extractor: requests.get
\* blocks the loop until the page is there
ExtractStatic(i, page) ==
    /\ Running(i, "extract")
    /\ select_best_extractor(reqs[i].url) # PLAYWRIGHT
    /\ page \in PagesOf(reqs[i].url)
    /\ Step(i, after_extract(reqs[i], extract_website_content(reqs[i].url, page)), file)
    /\ UNCHANGED saved

\* extract_website_content with the Playwright extractor: the coroutine
\* awaits the browser and the loop is free
ExtractRenderedStart(i) ==
    /\ Running(i, "extract")
    /\ select_best_extractor(reqs[i].url) = PLAYWRIGHT
    /\ reqs' = [ reqs EXCEPT ![i].pc = "rendering" ]
    /\ loop' = 0
    /\ UNCHANGED <<file, saved, ufile, ghost, probe>>

ExtractRenderedEnd(i, page) ==
    /\ i \in 1..Len(reqs)
    /\ loop = 0
    /\ reqs[i].pc = "rendering"
    /\ page \in PagesOf(reqs[i].url)
    /\ Step(i, after_extract(reqs[i], extract_website_content(reqs[i].url, page)), file)
    /\ UNCHANGED saved

Analyze(i, gpt) ==
    /\ Running(i, "analyze")
    /\ Step(i, after_analyze(reqs[i], gpt), file)
    /\ UNCHANGED saved

AnalyzeSave(i) ==
    /\ Running(i, "save")
    /\ reqs[i].ep = "analyze"
    /\ LET to == analyze_save(file, reqs[i]) IN Step(i, to.r, to.file)
    /\ saved' = saved \cup { reqs[i].url }

QuestionSave(i) ==
    /\ Running(i, "save")
    /\ reqs[i].ep = "question"
    /\ LET to == question_save(file, reqs[i]) IN Step(i, to.r, to.file)
    /\ UNCHANGED saved

QuestionAnswer(i) ==
    /\ Running(i, "answer")
    /\ LET to == question_answer(file, reqs[i]) IN Step(i, to.r, to.file)
    /\ UNCHANGED saved

QuestionSearch(i, backend, serp) ==
    /\ Running(i, "search")
    /\ Step(i, question_search(reqs[i],
                   SearchServiceFactory_search_web(reqs[i].question, TRUE, backend, serp)),
            file)
    /\ UNCHANGED saved

QuestionAnswerLlm(i, gpt) ==
    /\ Running(i, "answer_llm")
    /\ LET to == question_answer_llm(file, reqs[i], gpt) IN Step(i, to.r, to.file)
    /\ UNCHANGED saved

Next ==
    \/ \E url \in PipeUrls, auth \in AuthHeaders : ReceiveAnalyze(url, auth)
    \/ \E url \in QuestionUrls, question \in PipeQuestions, auth \in AuthHeaders :
          ReceiveQuestion(url, question, auth)
    \/ \E question \in { <<"c","e","o">> }, auth \in AuthHeaders :
          ReceiveDirect(question, auth)
    \/ \E i \in 1..MaxRequests : Authorize(i)
    \/ \E i \in 1..MaxRequests : AnalyzeLookup(i)
    \/ \E i \in 1..MaxRequests : QuestionLookup(i)
    \/ \E i \in 1..MaxRequests, gpt \in AnswerGptOutcomes : DirectQuestion(i, gpt)
    \/ \E i \in 1..MaxRequests, page \in PipePages : ExtractStatic(i, page)
    \/ \E i \in 1..MaxRequests : ExtractRenderedStart(i)
    \/ \E i \in 1..MaxRequests, page \in PipePages : ExtractRenderedEnd(i, page)
    \/ \E i \in 1..MaxRequests, gpt \in GptOutcomes : Analyze(i, gpt)
    \/ \E i \in 1..MaxRequests : AnalyzeSave(i)
    \/ \E i \in 1..MaxRequests : QuestionSave(i)
    \/ \E i \in 1..MaxRequests : QuestionAnswer(i)
    \/ \E i \in 1..MaxRequests, backend \in PipeBackends, serp \in SerpOutcomes :
          QuestionSearch(i, backend, serp)
    \/ \E i \in 1..MaxRequests, gpt \in AnswerGptOutcomes : QuestionAnswerLlm(i, gpt)

Spec == Init /\ [][Next]_vars

-----------------------------------------------------------------------------
(* Properties of the endpoints, under Spec                                 *)

Requests == { reqs[i] : i \in 1..Len(reqs) }

HandlerSteps(i) ==
    /\ i \in 1..Len(reqs)
    /\ reqs'[i] # reqs[i]

(* C1: after an /analyze handler has stored the analysis of a URL, every   *)
(* later /analyze of the same URL string returns the cached                *)
(* BusinessDetails with 200 and selects no extractor, extracts no content  *)
(* and calls no model.                                                     *)
C1_RepeatAnalyzeIsCached ==
    \A r \in Requests :
        (r.ep = "analyze" /\ r.after_save /\ r.auth = Some(APP_API_KEY)) =>
            /\ r.eff.selects = 0 /\ r.eff.extracts = 0 /\ r.eff.llm = 0
            /\ r.pc = "done" => (r.status = 200 /\ r.cached)

C6_CachedAnswerShortCircuits ==
    [][ \A i \in 1..MaxRequests :
          ( /\ HandlerSteps(i)
            /\ reqs[i].ep = "question"
            /\ reqs[i].pc = "handler"
            /\ get_question_answer(file, reqs[i].url, reqs[i].question) # None ) =>
              /\ reqs'[i].pc = "done"
              /\ reqs'[i].status = 200
              /\ reqs'[i].answer =
                     get_question_answer(file, reqs[i].url, reqs[i].question)
              /\ reqs'[i].eff = [ NoEffects EXCEPT !.reads = 1 ]
              /\ file' = file ]_vars

C6_Witness ==
    \E r \in Requests :
        /\ r.ep = "question" /\ r.pc = "done" /\ r.cached
        /\ r.status = 200 /\ r.answer # None
        /\ r.answer = get_question_answer(file, r.url, r.question)

(* C7: a question request reaches the web search only when its question    *)
(* holds no keyword of any category; when the search returns no results    *)
(* the request ends there with 404, and the step writes nothing to the     *)
(* cache file, so no entry appears under (url, question).                  *)
C7_NoResultsIsNotFound ==
    [][ \A i \in 1..MaxRequests :
          ( /\ HandlerSteps(i)
            /\ reqs[i].pc = "search" ) =>
              /\ ~Mentions(IndustryWords \cup SizeWords \cup LocationWords, reqs[i].question)
              /\ reqs'[i].eff.searches = reqs[i].eff.searches + 1
              /\ \/ /\ reqs'[i].pc = "answer_llm"
                    /\ reqs'[i].search_results # None
                 \/ /\ reqs'[i].pc = "done"
                    /\ reqs'[i].status = 404
                    /\ reqs'[i].answer = None
                    /\ reqs'[i].eff.writes = reqs[i].eff.writes
                    /\ file' = file ]_vars

C7_Witness ==
    \E r \in Requests :
        /\ r.ep = "question" /\ r.pc = "done" /\ r.status = 404
        /\ r.eff.searches = 1
        /\ get_question_answer(file, r.url, r.question) = None

C15_ExtractionFailureIs500 ==
    [][ \A i \in 1..Len(reqs) :
          ( /\ reqs[i].pc \in { "extract", "rendering" }
            /\ reqs'[i] # reqs[i]
            /\ reqs'[i].pc # "rendering"
            /\ reqs'[i].extracted = None )
          => /\ reqs'[i].pc = "done"
             /\ reqs'[i].status = 500
             /\ reqs'[i].detail = ExtractionError.exc
             /\ reqs'[i].eff.extracts = 1
             /\ reqs'[i].eff.llm = 0
             /\ reqs'[i].eff.writes = 0
             /\ file' = file ]_vars

C15_Witness ==
    \E r1 \in Requests, r2 \in Requests :
        /\ r1.ep = "analyze" /\ r2.ep = "question"
        /\ \A r \in { r1, r2 } :
              /\ r.pc = "done" /\ r.status = 500
              /\ r.detail = ExtractionError.exc
              /\ r.eff.extracts = 1 /\ r.eff.llm = 0 /\ r.eff.writes = 0

\* C18: answer_question ends with 404 only after both search backends, the
\* DuckDuckGo service and the SerpAPI service, were called for the request.
C18_NotFoundAfterBothBackends ==
    \A r \in Requests :
        (r.ep = "question" /\ r.pc = "done" /\ r.status = 404)
            => (r.eff.ddg >= 1 /\ r.eff.serp >= 1)

-----------------------------------------------------------------------------
(* The /analyze endpoint alone, with bodies that are not urls              *)

AnalyzeUrls == PipeUrls \cup { NotAUrl }

\* POST /api/analyze/ with a body that has no url string
ReceiveMalformedAnalyze(auth) ==
    /\ Len(reqs) < MaxRequests
    /\ reqs' = Append(reqs, MalformedRequest("analyze", auth))
    /\ UNCHANGED <<file, loop, saved, ufile, ghost, probe>>

AnalyzeNext ==
    \/ \E url \in AnalyzeUrls, auth \in AuthHeaders : ReceiveAnalyze(url, auth)
    \/ \E auth \in AuthHeaders : ReceiveMalformedAnalyze(auth)
    \/ \E i \in 1..MaxRequests : Authorize(i)
    \/ \E i \in 1..MaxRequests : AnalyzeLookup(i)
    \/ \E i \in 1..MaxRequests, page \in PipePages : ExtractStatic(i, page)
    \/ \E i \in 1..MaxRequests : ExtractRenderedStart(i)
    \/ \E i \in 1..MaxRequests, page \in PipePages : ExtractRenderedEnd(i, page)
    \/ \E i \in 1..MaxRequests, gpt \in GptOutcomes : Analyze(i, gpt)
    \/ \E i \in 1..MaxRequests : AnalyzeSave(i)

SpecAnalyze == Init /\ [][AnalyzeNext]_vars

\* C14: an authorized /analyze request whose url is not an http(s) URL is
\* never handled: it ends with 422 and has read no cache, run no extraction
\* and called no model.
C14_InvalidUrlRejected ==
    \A r \in Requests :
        ( /\ r.ep = "analyze"
          /\ r.auth = Some(APP_API_KEY)
          /\ ~has_scheme(r.url)
          /\ r.pc # "received" )
        => /\ r.pc = "done"
           /\ r.status = 422
           /\ r.eff = NoEffects

\* C20: when an /analyze request saves its result while another /analyze
\* request for the same URL is in flight or has saved too, the saving request
\* has run its own extraction and its own model call, the other one its own
\* cache lookup without a hit, and after the save the cache holds the saving
\* request's result.
C20_ConcurrentAnalyzeLastWriteWins ==
    [][ \A i \in 1..Len(reqs), j \in 1..Len(reqs) :
          ( /\ i # j
            /\ reqs[i].ep = "analyze" /\ reqs[j].ep = "analyze"
            /\ reqs[i].url = reqs[j].url
            /\ reqs[i].pc = "save" /\ reqs'[i].pc = "done"
            /\ \/ reqs[j].pc = "rendering"
               \/ reqs[j].pc = "done" /\ reqs[j].eff.writes = 1 )
          => /\ reqs'[i].eff.extracts = 1 /\ reqs'[i].eff.llm = 1
             /\ reqs[j].eff.reads = 1 /\ ~reqs[j].cached
             /\ get_company_data(file', reqs[i].url) = reqs[i].company_data ]_vars

\* C21: the step in which a request's content extraction or model call
\* completes starts with the event loop free: the request was suspended
\* while the fetch or the completion was outstanding, so that any other
\* in-flight request could run meanwhile.
C21_ExtractionAndModelCallYield ==
    [][ \A i \in 1..Len(reqs) :
          ( \/ reqs'[i].eff.extracts > reqs[i].eff.extracts
            \/ reqs'[i].eff.llm > reqs[i].eff.llm )
          => loop = 0 ]_vars

-----------------------------------------------------------------------------
(* Further properties of the cache store, under SpecStore                  *)

\* the entry the file holds under a URL, or under a URL and a question
company_entry(f, u) == Lookup(_load_db(f).companies, u)

question_entry(f, u, q) == JsonDatabase_get_question_answer(f, u, q)

\* C22: a key that has an entry in the companies map or in the questions
\* map has one after every store operation, and the entry is the one it had
\* or the value last written under that key.
C22_KeysPersist ==
    [][ /\ \A u \in StoreUrls :
            company_entry(file, u) # None =>
                /\ company_entry(file', u) # None
                /\ \/ company_entry(file', u) = company_entry(file, u)
                   \/ company_entry(file', u) =
                          Some(model_dump(ghost'.companies[u]))
        /\ \A u \in StoreUrls, q \in StoreQuestions :
            question_entry(file, u, q) # None =>
                /\ question_entry(file', u, q) # None
                /\ \/ question_entry(file', u, q) = question_entry(file, u, q)
                   \/ question_entry(file', u, q) =
                          Lookup(ghost'.questions, <<u, q>>) ]_vars

-----------------------------------------------------------------------------
(* Further properties of the endpoints, under Spec                         *)

\* confidences are held in tenths: [0,1] is 0..10
UnitInterval == 0..10

\* C23: every answer the question endpoint returns with 200, every entry of
\* the questions map and every entry of the companies map has its
\* confidence scores within [0,1].
C23_ConfidencesInUnitInterval ==
    /\ \A r \in Requests :
          (r.ep = "question" /\ r.pc = "done" /\ r.status = 200)
              => r.answer[1].confidence \in UnitInterval
    /\ \A u \in DOMAIN _load_db(file).questions :
          \A q \in DOMAIN _load_db(file).questions[u] :
              _load_db(file).questions[u][q].confidence \in UnitInterval
    /\ \A u \in DOMAIN _load_db(file).companies :
          LET b == _load_db(file).companies[u] IN
          /\ b.industry.confidence_score \in UnitInterval
          /\ b.company_size.confidence_score \in UnitInterval
          /\ b.location.confidence_score \in UnitInterval

-----------------------------------------------------------------------------
(* app/extractors/crew4ai_extractor.py: Crew4AIExtractor._poll_job_status. *)
(* probe holds the coroutine: the number of status requests made, its      *)
(* position, the last response and what it returned or raised.            *)

\* max_attempts: int = 30
MAX_ATTEMPTS == 30

\* a response of GET /jobs/{job_id}: the HTTP status and, of a 200, the
\* "status" member of the body ("" when the body has none)
PollResponses ==
    { [ http |-> 503, status |-> "" ],
      [ http |-> 200, status |-> "completed" ],
      [ http |-> 200, status |-> "failed" ],
      [ http |-> 200, status |-> "running" ],
      [ http |-> 200, status |-> "" ] }

NoResponse == [ http |-> 0, status |-> "" ]

Poller(pc, polls, last, out) ==
    [ fn |-> "_poll_job_status", pc |-> pc, polls |-> polls, last |-> last, out |-> out ]

PollInit ==
    /\ PipelineIdle
    /\ StoreIdle
    /\ probe = Poller("get", 0, NoResponse, "")

\* the body of the for loop on one response
poll_response(p, response) ==
    LET polled == p.polls + 1 IN
    IF response.http # 200
    THEN Poller("raised", polled, response, "ValueError")
    ELSE IF response.status = "completed"
    THEN Poller("returned", polled, response, "result")
    ELSE IF response.status = "failed"
    THEN Poller("raised", polled, response, "ValueError")
    ELSE Poller("sleep", polled, response, "")

\* a loop with one iteration more
poll_next_attempt_one_more(p) ==
    IF p.polls < MAX_ATTEMPTS + 1
    THEN [ p EXCEPT !.pc = "get" ]
    ELSE [ p EXCEPT !.pc = "raised", !.out = "TimeoutError" ]

\* for _ in range(max_attempts), after asyncio.sleep(delay): the next
\* iteration, or the TimeoutError after the loop
poll_next_attempt(p) ==
    IF p.polls < MAX_ATTEMPTS
    THEN [ p EXCEPT !.pc = "get" ]
    ELSE [ p EXCEPT !.pc = "raised", !.out = "TimeoutError" ]

\* session.get(.../jobs/{job_id}) and the branches on its response
PollGet(response) ==
    /\ probe.pc = "get"
    /\ probe' = poll_response(probe, response)
    /\ UNCHANGED <<file, reqs, loop, saved, ufile, ghost>>

\* await asyncio.sleep(delay) is over
PollWake ==
    /\ probe.pc = "sleep"
    /\ probe' = poll_next_attempt(probe)
    /\ UNCHANGED <<file, reqs, loop, saved, ufile, ghost>>

PollNext ==
    \/ \E response \in PollResponses : PollGet(response)
    \/ PollWake

SpecPoll == PollInit /\ [][PollNext]_vars

PollPending(response) ==
    response.http = 200 /\ response.status \notin { "completed", "failed" }

\* C24: polling makes at most 30 status requests; it goes on only after a
\* 200 response that is neither 'completed' nor 'failed', returns the job
\* result on 'completed', raises on 'failed' and on a non-200 response, and
\* raises the timeout error only after 30 requests.
C24_PollingEndsWithin30 ==
    /\ probe.polls <= 30
    /\ (probe.pc \in { "get", "sleep" } /\ probe.polls > 0) => PollPending(probe.last)
    /\ probe.pc = "get" => probe.polls < 30
    /\ probe.pc = "returned" =>
          (probe.last.http = 200 /\ probe.last.status = "completed" /\ probe.out = "result")
    /\ (probe.pc = "raised" /\ probe.out = "ValueError") =>
          (probe.last.http # 200 \/ probe.last.status = "failed")
    /\ (probe.pc = "raised" /\ probe.out = "TimeoutError") =>
          (probe.polls = 30 /\ PollPending(probe.last))
    /\ probe.pc = "raised" => probe.out \in { "ValueError", "TimeoutError" }
    /\ (probe.polls > 0 /\ ~PollPending(probe.last)) => probe.pc \in { "returned", "raised" }

C24_Witness ==
    /\ probe.pc = "raised" /\ probe.out = "TimeoutError" /\ probe.polls = 30

-----------------------------------------------------------------------------
(* Opening the stores: JsonDatabase(db_path) of app/db/json_db.py and of   *)
(* app/utils/database.py on paths data/<name>.json.  probe holds whether   *)
(* the directory exists, the two files as they were at the start and the   *)
(* stores opened since.                                                    *)

OpenDbs ==
    { EmptyDb } \cup
    { with_question_answer(EmptyDb, u, q, a) :
          u \in StoreUrls, q \in StoreQuestions, a \in StoreAnswers }

OpenFiles ==
    { [ state |-> "absent", db |-> EmptyDb ], [ state |-> "corrupt", db |-> EmptyDb ] } \cup
    { [ state |-> "ok", db |-> d ] : d \in OpenDbs }

OpenUDbs ==
    { EmptyUDb } \cup
    { [ EmptyUDb EXCEPT !.companies = dict_set(@, u, d) ] :
          u \in StoreUrls, d \in UtilDatas }

OpenUFiles ==
    { [ state |-> "absent", db |-> EmptyUDb ], [ state |-> "corrupt", db |-> EmptyUDb ] } \cup
    { [ state |-> "ok", db |-> d ] : d \in OpenUDbs }

\* a file exists only in an existing directory
OpenInit ==
    /\ reqs = <<>> /\ loop = 0 /\ saved = {} /\ ghost = InitGhost
    /\ file \in OpenFiles
    /\ ufile \in OpenUFiles
    /\ \E dir \in BOOLEAN :
          /\ ~dir => (file.state = "absent" /\ ufile.state = "absent")
          /\ probe = [ fn |-> "JsonDatabase", dir |-> dir,
                       file |-> file, ufile |-> ufile, opened |-> {} ]

\* os.makedirs(os.path.dirname(self.db_path), exist_ok=True)
os_makedirs(dir) == TRUE

\* JsonDatabase(db_path) of app/db/json_db.py
OpenStore ==
    /\ file' = _ensure_db_exists(file)
    /\ probe' = [ probe EXCEPT !.dir = os_makedirs(@), !.opened = @ \cup { "db" } ]
    /\ UNCHANGED <<reqs, loop, saved, ufile, ghost>>

\* JsonDatabase(db_path) of app/utils/database.py
OpenUtilStore ==
    /\ ufile' = U_ensure_db_exists(ufile)
    /\ probe' = [ probe EXCEPT !.dir = os_makedirs(@), !.opened = @ \cup { "utils" } ]
    /\ UNCHANGED <<file, reqs, loop, saved, ghost>>

OpenNext == OpenStore \/ OpenUtilStore

SpecOpen == OpenInit /\ [][OpenNext]_vars

-----------------------------------------------------------------------------
(* Frame and acknowledgement of the cache store's writes, under SpecStore  *)

\* C26: a store operation leaves the entry of every key it does not write
\* as it was: a put to one URL changes no other URL's company entry and no
\* question entry, a put to one (URL, question) changes no company entry
\* and no other question entry.
C26_WriteChangesOnlyItsKey ==
    [][ /\ \A u \in StoreUrls :
            Lookup(ghost'.companies, u) = Lookup(ghost.companies, u)
                => company_entry(file', u) = company_entry(file, u)
        /\ \A u \in StoreUrls, q \in StoreQuestions :
            Lookup(ghost'.questions, <<u, q>>) = Lookup(ghost.questions, <<u, q>>)
                => question_entry(file', u, q) = question_entry(file, u, q) ]_vars

\* C27: on every file the store can be in, a put that returns true is
\* followed by a get of the same key that returns the value just written.
C27_TrueMeansStored ==
    /\ \A u \in StoreUrls, b \in CompanyRecords :
          LET put == save_company_data(file, u, b) IN
          put.ret => get_company_data(put.file, u) = Some(b)
    /\ \A u \in StoreUrls, q \in StoreQuestions, a \in StoreAnswers :
          LET put == save_question_answer(file, u, q, a) IN
          put.ret => get_question_answer(put.file, u, q) = Some(a)

-----------------------------------------------------------------------------
(* Further properties of the question endpoint, under Spec                 *)

\* C28: with the company's record at hand, the step that answers a question
\* holding a keyword of some category ends the request with 200 and an
\* answer, with no web search and no model call for the answer, whatever
\* record the data model allows, a location without headquarters included.
C28_LocalKeywordAlwaysAnswered ==
    [][ \A i \in 1..MaxRequests :
          ( /\ HandlerSteps(i)
            /\ reqs[i].pc = "answer"
            /\ Mentions(IndustryWords \cup SizeWords \cup LocationWords,
                        reqs[i].question) ) =>
              /\ reqs'[i].pc = "done"
              /\ reqs'[i].status = 200
              /\ reqs'[i].answer # None
              /\ reqs'[i].eff.searches = 0
              /\ reqs'[i].eff.llm = reqs[i].eff.llm ]_vars

\* C29: the save step of a question request leaves its freshly analyzed
\* record in the companies map before the question is attempted; and once a
\* question request that extracted and saved has ended as not-found or as
\* an error, the cache lookup of any other request for that URL does not
\* lead to an extraction.
C29_FreshDataStaysCached ==
    [][ \A i \in 1..MaxRequests :
          HandlerSteps(i) =>
            /\ (reqs[i].ep = "question" /\ reqs[i].pc = "save") =>
                  /\ reqs'[i].pc = "answer"
                  /\ get_company_data(file', reqs[i].url) = reqs[i].company_data
            /\ ( /\ reqs[i].pc = "handler"
                 /\ reqs[i].ep \in { "analyze", "question" }
                 /\ \E j \in 1..Len(reqs) :
                       /\ j # i
                       /\ reqs[j].ep = "question" /\ reqs[j].url = reqs[i].url
                       /\ reqs[j].eff.extracts = 1 /\ reqs[j].eff.writes >= 1
                       /\ reqs[j].pc = "done" /\ reqs[j].status \in { 404, 500 } )
               => /\ reqs'[i].pc # "extract"
                  /\ reqs'[i].eff.extracts = 0 ]_vars

-----------------------------------------------------------------------------
(* The server after one question was answered with the fallback of         *)
(* analyze_with_llm: the question save of that request wrote the file      *)
(* that its company save had left unparsable, so the file holds the one    *)
(* answer.  ghost.questions remembers what answer_question stored.         *)

CachedUrl == CHOOSE u \in QuestionUrls : TRUE

CachedQuestion == <<"c","e","o">>

FallbackResponse ==
    QuestionResponse_new(FallbackAnswer.answer, FallbackAnswer.confidence,
                         "web_search").value

CachedInit ==
    /\ reqs = <<>> /\ loop = 0 /\ saved = {}
    /\ file = save_question_answer([ state |-> "corrupt", db |-> EmptyDb ],
                                   CachedUrl, CachedQuestion, FallbackResponse).file
    /\ ufile = InitUFile
    /\ ghost = [ InitGhost EXCEPT
                   !.questions = dict_set(@, <<CachedUrl, CachedQuestion>>,
                                          FallbackResponse) ]
    /\ probe = Pending

CachedNext ==
    \/ \E url \in PipeUrls, auth \in AuthHeaders : ReceiveAnalyze(url, auth)
    \/ \E auth \in AuthHeaders : ReceiveQuestion(CachedUrl, CachedQuestion, auth)
    \/ \E i \in 1..MaxRequests : Authorize(i)
    \/ \E i \in 1..MaxRequests : AnalyzeLookup(i)
    \/ \E i \in 1..MaxRequests : QuestionLookup(i)
    \/ \E i \in 1..MaxRequests, page \in PipePages : ExtractStatic(i, page)
    \/ \E i \in 1..MaxRequests : ExtractRenderedStart(i)
    \/ \E i \in 1..MaxRequests, page \in PipePages : ExtractRenderedEnd(i, page)
    \/ \E i \in 1..MaxRequests, gpt \in GptOutcomes : Analyze(i, gpt)
    \/ \E i \in 1..MaxRequests : AnalyzeSave(i)
    \/ \E i \in 1..MaxRequests : QuestionSave(i)
    \/ \E i \in 1..MaxRequests : QuestionAnswer(i)
    \/ \E i \in 1..MaxRequests, backend \in PipeBackends, serp \in SerpOutcomes :
          QuestionSearch(i, backend, serp)
    \/ \E i \in 1..MaxRequests, gpt \in AnswerGptOutcomes : QuestionAnswerLlm(i, gpt)

SpecCached == CachedInit /\ [][CachedNext]_vars

\* C30: when the search gave results and the model call fails (it raises, or
\* its text is not JSON), the question request ends 200 with the fixed
\* fallback answer, confidence 0.0 and source web_search, and the answer is
\* stored under (url, question); and every later identical question is
\* answered 200 with that answer from the cache, with no search and no model
\* call
C30_FallbackAnswerIsCached ==
    [][ \A i \in 1..MaxRequests :
          HandlerSteps(i) =>
            /\ reqs[i].pc = "answer_llm" =>
                 \A gpt \in AnswerGptOutcomes :
                    (gpt.raised \/ ~gpt.text.json) =>
                       LET to == question_answer_llm(file, reqs[i], gpt) IN
                       /\ to.r.pc = "done" /\ to.r.status = 200
                       /\ to.r.answer = Some(FallbackResponse)
                       /\ get_question_answer(to.file, reqs[i].url, reqs[i].question)
                             = Some(FallbackResponse)
            /\ ( /\ reqs[i].ep = "question" /\ reqs[i].pc = "handler"
                 /\ Lookup(ghost.questions, <<reqs[i].url, reqs[i].question>>)
                       = Some(FallbackResponse) )
               => /\ reqs'[i].pc = "done" /\ reqs'[i].status = 200
                  /\ reqs'[i].answer = Some(FallbackResponse)
                  /\ reqs'[i].cached
                  /\ reqs'[i].eff.searches = 0 /\ reqs'[i].eff.llm = 0 ]_vars

====
